---- MODULE Spec2Model ----
(***************************************************************************)
(* The cached, retrying fetch of KakenApiClient (src/src/client.ts), the   *)
(* file-backed ResponseCache it reads and writes (src/src/cache.ts), and   *)
(* the status mapping of ProjectsAPI.search / ResearchersAPI.search        *)
(* (src/src/api/projects.ts, src/unnamed/part_003).                        *)
(*                                                                         *)
(* One search call is in progress at a time; calls follow one another and  *)
(* share the cache files.  Every await of the code is a step of its own,   *)
(* so the settlement order of promises (transport against timer) is a      *)
(* choice of the environment.                                              *)
(***************************************************************************)
EXTENDS Integers, Sequences, FiniteSets, TLC

(* ------------------------------ bounds -------------------------------- *)

\* largest maxRetries option the model constructs a client with
MaxRetriesBound == 6
\* number of search calls made one after another on the same client
MaxCalls == 2
\* number of search calls whose params are spelled out
MaxParamCalls == 1

(* ------------------------- program constants -------------------------- *)

BASE_RETRY_DELAY_MS == 1000
MAX_RETRY_DELAY_MS == 30000
DEFAULT_TIMEOUT_MS == 30000
\* constants.ts: DEFAULTS.START_INDEX, DEFAULTS.RESULTS_PER_PAGE, LIMITS,
\* VALID_RESULTS_PER_PAGE
DEFAULT_START_INDEX == 1
DEFAULT_RESULTS_PER_PAGE == 20
MAX_PROJECTS_RESULTS == 200000
MAX_RESEARCHERS_RESULTS == 1000
VALID_RESULTS_PER_PAGE == {20, 50, 100, 200, 500}
\* status of a Response constructed without an init object (Fetch standard)
DefaultResponseStatus == 200

(* ------------------------------ values -------------------------------- *)

\* request URLs built by search
Urls == {"urlA", "urlB"}
\* response bodies, as byte contents
Bodies == {"body1", "body2"}
\* the bodies that are a document the parser of the endpoint accepts
WellFormedBodies == {"body1"}
\* the value null of a cache lookup
Null == "null"
\* a cache file that does not exist
Absent == "absent"
\* no bytes: the body of a response that has none
EmptyBody == ""
\* the content of a cache file whose write failed after the file was opened
Truncated == ""
\* statuses the transport may answer with
Statuses == {200, 204, 304, 400, 404, 503}
\* the null body statuses (Fetch standard) among them: a Response of such a
\* status has no body, and cannot be constructed with one
NullBodyStatuses == {204, 304}
\* the bodies a response of the given status may carry
ResponseBodies(status) == IF status \in NullBodyStatuses THEN {EmptyBody} ELSE Bodies
\* errors the transport may reject with, by an identifying code
ThrownCodes == {1, 2}
\* values of the timeout option: a short one and the default
Timeouts == {5000, DEFAULT_TIMEOUT_MS}

Min(a, b) == IF a <= b THEN a ELSE b

\* createHash('md5').update(url).digest('hex'): a digest that stands for the URL
md5(url) == "md5(" \o url \o ")"

\* ResponseCache.getCacheFilePath: join(cacheDir, `${hash}.cache`)
getCacheFilePath(url) == <<"cacheDir", md5(url), ".cache">>

Paths == {getCacheFilePath(u) : u \in Urls}

(* errors *)
Err(kind, code) == [kind |-> kind, code |-> code]
NoError == Err("none", 0)
\* new Error('Unexpected: no retry attempts were made')
UnexpectedError == Err("unexpected", 0)
\* a rejection of fetchFn(url)
ThrownError(code) == Err("thrown", code)
\* new Error(`HTTP ${response.status}`)
HttpError(status) == Err("http", status)
\* a rejection of mkdir or writeFile inside ResponseCache.set
FsError == Err("fs", 0)
\* the TypeError of new Response(body, { status }) for a null body status
ResponseInitError(status) == Err("type", status)
\* a rejection of response.arrayBuffer() or response.text(): the body stream of
\* the transport's response failed
BodyError == Err("body", 0)

\* withTimeout: the timer's rejection, new Error(`Request timed out after ${ms}ms`)
WithTimeoutErrorGeneric(ms) == Err("thrown", ms)
WithTimeoutError(ms) == Err("timeout", ms)

(* what the fetch function settles with *)
Returned(status, body) ==
    [kind |-> "response", status |-> status, body |-> body, error |-> NoError]
Raised(err) ==
    [kind |-> "raise", status |-> 0, body |-> Null, error |-> err]
NoResult == [kind |-> "pending", status |-> 0, body |-> Null, error |-> NoError]

(* what one attempt's race settled with *)
Outcome(kind, status, body, code) ==
    [kind |-> kind, status |-> status, body |-> body, code |-> code]
NoOutcome == Outcome("none", 0, Null, 0)

(* --------------------------- pure functions --------------------------- *)

\* Response.ok
IsOk(status) == status >= 200 /\ status <= 299

\* client.ts:119  response.status >= 400 && response.status < 500
IsClientErrorAbove400(status) == status > 400 /\ status < 500
IsClientError(status) == status >= 400 /\ status < 500

\* client.ts:104  attempt++ of the for statement, reached by each continue
NextAttemptSame(a) == a
NextAttempt(a) == a + 1

\* client.ts:104  the loop condition attempt <= maxRetries
LoopContinuesStrict(a, m) == a < m
LoopContinues(a, m) == a <= m

\* client.ts:106  Math.min(BASE_RETRY_DELAY_MS * Math.pow(2, attempt - 1), MAX_RETRY_DELAY_MS)
RetryDelayUncapped(a) == BASE_RETRY_DELAY_MS * 2 ^ (a - 1)
RetryDelay(a) == Min(BASE_RETRY_DELAY_MS * 2 ^ (a - 1), MAX_RETRY_DELAY_MS)

\* client.ts:114 and 125  lastError = error
KeepFirstError(last, err) == IF last = UnexpectedError THEN err ELSE last
NextLastError(last, err) == err

\* client.ts:96  cached !== null
CacheHitNever(c) == FALSE
CacheHit(c) == c # Null

\* client.ts:94  if (useCache): the fetch function starts at the cache lookup
\* when caching is enabled, at the retry loop otherwise
FetchEntryLoop(enabled) == "loop"
FetchEntry(enabled) == IF enabled THEN "lookup" ELSE "loop"

\* withTimeout: the number of transport promises left unsettled when the race
\* of one attempt is decided (Promise.race does not cancel the loser)
RaceLeavesAlways(kind) == 1
RaceLeaves(kind) == IF kind = "timeout" THEN 1 ELSE 0

\* what fetchFn(url) may settle with once its attempt has timed out: a rejection,
\* or the answer the call was waiting for
LateOutcomes ==
    {Outcome("response", 200, b, 0) : b \in Bodies}
        \cup {Outcome("thrown", 0, Null, c) : c \in ThrownCodes}

\* withTimeout (client.ts:153): Promise.race([promise, timeout]) is settled by the
\* first of the two promises to settle.  What the awaiting loop is handed when
\* the other one settles with o afterwards: nothing.
LateDeliveryPassedOn(o) == o
LateDelivery(o) == NoOutcome

\* client.ts:134  return new Response(buffer, { status: response.status })
FreshResponse(status, body) ==
    IF status \in NullBodyStatuses
    THEN Raised(ResponseInitError(status))
    ELSE Returned(status, body)

\* ResponseCache.get: readFile, any rejection caught and turned into null
CacheGetWhenDisabled(enabled, files, u, readOk) ==
    IF readOk /\ files[getCacheFilePath(u)] # Absent
    THEN files[getCacheFilePath(u)]
    ELSE Null
CacheGet(enabled, files, u, readOk) ==
    IF ~enabled THEN Null
    ELSE IF readOk /\ files[getCacheFilePath(u)] # Absent
         THEN files[getCacheFilePath(u)]
         ELSE Null

\* ResponseCache.set when mkdir and writeFile succeed
CacheSetFilesNowhere(enabled, files, u, content) == files
CacheSetFiles(enabled, files, u, content) ==
    IF ~enabled THEN files
    ELSE [files EXCEPT ![getCacheFilePath(u)] = content]

\* ResponseCache.set when mkdir or writeFile rejects: a writeFile that failed
\* after opening the file leaves it truncated
CacheSetBroken(files, u, opened) ==
    IF opened THEN [files EXCEPT ![getCacheFilePath(u)] = Truncated] ELSE files

\* ResponseCache.clear: readdir, then unlink of every file that ends in .cache;
\* listed is false when readdir or an unlink rejects (the directory is missing
\* or cannot be accessed), which the catch swallows
CacheClearFilesKeepsAll(enabled, files, listed) == files
CacheClearFiles(enabled, files, listed) ==
    IF ~enabled \/ ~listed THEN files
    ELSE [p \in DOMAIN files |-> IF p[3] = ".cache" THEN Absent ELSE files[p]]

\* ResponseCache.clear: how the call settles (cache.ts:30-35 try / catch)
CacheClearSettles(enabled, listed) ==
    IF ~enabled THEN "resolved"
    ELSE IF listed THEN "resolved"
         ELSE \* catch { }
              "resolved"

\* search: the outcome of the lines after await this.doFetch(url)
SearchResult(kind, statusCode, body, cause) ==
    [kind |-> kind, statusCode |-> statusCode, body |-> body, cause |-> cause]
NoSearchResult == SearchResult("pending", 0, Null, NoError)

SearchOutcomeNo404(r) ==
    IF r.kind = "raise" THEN SearchResult("KakenApiRequestError", 0, Null, r.error)
    ELSE IF ~IsOk(r.status)
         THEN SearchResult("KakenApiRequestError", r.status, Null, NoError)
         ELSE SearchResult("content", 0, r.body, NoError)
SearchOutcome(r) ==
    IF r.kind = "raise"
    THEN \* doFetch: catch (error) -> KakenApiRequestError, no status code
         SearchResult("KakenApiRequestError", 0, Null, r.error)
    ELSE IF r.status = 404
         THEN SearchResult("KakenApiNotFoundError", 404, Null, NoError)
         ELSE IF ~IsOk(r.status)
              THEN SearchResult("KakenApiRequestError", r.status, Null, NoError)
              ELSE \* the body text handed to the parser
                   SearchResult("content", 0, r.body, NoError)

\* parseXmlResponse / parseJsonResponse: the envelope (whose rawData is the
\* content), or KakenApiResponseError for whatever the parser throws
ParseResponse(content) ==
    IF content \in WellFormedBodies
    THEN SearchResult("envelope", 0, content, NoError)
    ELSE SearchResult("KakenApiResponseError", 0, Null, NoError)

\* projects.ts:91-92  const content = await response.text();
\* return this.parseXmlResponse(content)
ReadAndParse(r, readable) ==
    IF r.kind # "content" THEN r
    ELSE IF readable THEN ParseResponse(r.body)
         ELSE \* the rejection of text() leaves search as it is
              SearchResult("TypeError", 0, Null, BodyError)

(* values of the calls made on the cache directly, of two calls at once, *)
(* and of the query search builds                                         *)

\* a call of client.cache.get / set / clear and what it settled with
ApiCall(op, u, result, fault) == [op |-> op, url |-> u, result |-> result, fault |-> fault]
NoApiCall == ApiCall("none", "urlA", Null, FALSE)

\* the two fetch calls in progress at once
PairCalls == {1, 2}
\* the bytes of a body: the two bodies differ in length
BytesOf(b) == IF b = "body1" THEN <<"x">> ELSE <<"y", "y">>
\* a file: whether it exists, and its bytes
File(exists, bytes) == [exists |-> exists, bytes |-> bytes]
NoFile == File(FALSE, <<>>)
\* where one call of the pair is
PairState(at, body, result) == [pc |-> at, body |-> body, result |-> result]
PairIdle == PairState("idle", <<>>, "pending")

\* a value of an optional parameter: undefined, a string, an array, a number
\* or the number NaN
JsValue(kind, val) == [kind |-> kind, val |-> val]
Undefined == JsValue("undefined", 0)
NaN == JsValue("NaN", 0)
JsNumber(n) == JsValue("number", n)
JsString(str) == JsValue("string", str)
JsArray(items) == JsValue("array", items)

\* the query parameters search sends, with the startIndex it was given and
\* whether its params carried no search condition
Query(endpoint, st, rw, start, perPage, bare) ==
    [endpoint |-> endpoint, st |-> st, rw |-> rw, start |-> start,
     perPage |-> perPage, bare |-> bare]
\* a call of a function of the normalizers: its name and what it returned
Norm(fn, out) == [fn |-> fn, out |-> out]
\* no function of the normalizers is under study, none was called
NoInput == Undefined
NoNorm == Norm("none", Undefined)

\* no query built yet
NoQuery == Query("none", Undefined, 0, Undefined, Undefined, FALSE)

(* ------------------------------- state -------------------------------- *)

VARIABLES
    useCache,     \* option useCache (also ResponseCache.enabled)
    maxRetries,   \* option maxRetries
    timeout,      \* option timeout, in ms
    store,        \* the cache directory: path -> content of the file
    pc,           \* where the current search call is
    url,          \* the URL of the current call
    cached,       \* local cached of the fetch function
    attempt,      \* local attempt of the retry loop
    lastError,    \* local lastError of the retry loop
    response,     \* local response of the retry loop
    fetchResult,  \* what the fetch function settled with
    searchResult, \* what search settled with
    calls,        \* number of search calls started
    nTransport,   \* invocations of fetchFn by the current call
    nFail,        \* attempts of the current call that ended as a retryable failure
    waits,        \* arguments of the sleep calls of the current call, in order
    nSets,        \* invocations of cache.set by the current call
    storeAtStart, \* the cache directory when the current call started
    lastOutcome,  \* what the most recent attempt's race settled with
    abandoned,    \* transport promises of the current call that lost their race
                  \* and have not settled yet
    api,          \* the last call made on client.cache directly, and its result
    expected,     \* path -> what the calls of set and clear so far leave there
    pair,         \* two fetch calls in progress at once: call -> its position
    file,         \* the cache file the two calls share, as bytes
    finished,     \* the calls of the pair whose cache.set has resolved, in order
    query,        \* the query parameters search built from its params
    input,        \* the value a function of the normalizers is called with
    norm,         \* the call of that function and what it returned
    parses        \* the bodies parsed so far with what each parse returned

config == <<useCache, maxRetries, timeout>>
locals == <<url, cached, attempt, lastError, response>>
observed == <<nTransport, nFail, waits, nSets, storeAtStart, lastOutcome>>
direct == <<api, expected>>
pairVars == <<pair, file, finished>>
normVars == <<input, norm, parses>>
vars == <<useCache, maxRetries, timeout, store, pc, url, cached, attempt, lastError,
          response, fetchResult, searchResult, calls, nTransport, nFail,
          waits, nSets, storeAtStart, lastOutcome, abandoned,
          api, expected, pair, file, finished, query, input, norm, parses>>

Init ==
    /\ useCache \in BOOLEAN
    /\ maxRetries \in 0..MaxRetriesBound
    /\ timeout \in Timeouts
    /\ store = [p \in Paths |-> Absent]
    /\ pc = "idle"
    /\ url = "urlA"
    /\ cached = Null
    /\ attempt = 0
    /\ lastError = UnexpectedError
    /\ response = NoResult
    /\ fetchResult = NoResult
    /\ searchResult = NoSearchResult
    /\ calls = 0
    /\ nTransport = 0
    /\ nFail = 0
    /\ waits = <<>>
    /\ nSets = 0
    /\ storeAtStart = store
    /\ lastOutcome = NoOutcome
    /\ abandoned = 0
    /\ api = NoApiCall
    /\ expected = [u \in Urls |-> Absent]
    /\ pair = [i \in PairCalls |-> PairIdle]
    /\ file = NoFile
    /\ finished = <<>>
    /\ query = NoQuery
    /\ input = NoInput
    /\ norm = NoNorm
    /\ parses = <<>>

(* ------------------------------ actions ------------------------------- *)

\* search(params) up to the call of the fetch function, on a client that has no
\* call in progress: the URL is built and the fetch function entered
\* (client.ts:92-94, 102)
Search(u) ==
    /\ pc \in {"idle", "done"}
    /\ calls < MaxCalls
    /\ calls' = calls + 1
    /\ url' = u
    /\ cached' = Null
    /\ attempt' = 0
    /\ lastError' = UnexpectedError
    /\ response' = NoResult
    /\ fetchResult' = NoResult
    /\ searchResult' = NoSearchResult
    /\ nTransport' = 0
    /\ nFail' = 0
    /\ waits' = <<>>
    /\ nSets' = 0
    /\ storeAtStart' = store
    /\ lastOutcome' = NoOutcome
    /\ abandoned' = 0
    /\ pc' = FetchEntry(useCache)
    /\ api' = NoApiCall
    /\ UNCHANGED <<config, normVars, expected, pairVars, query, store>>

\* client.ts:95-98  const cached = await this.cache.get(url); if (cached !== null) return
CacheLookup(readOk) ==
    /\ pc = "lookup"
    /\ cached' = CacheGet(useCache, store, url, readOk)
    /\ IF CacheHit(cached')
       THEN /\ fetchResult' = Returned(DefaultResponseStatus, cached')
            /\ pc' = "fetched"
       ELSE /\ fetchResult' = fetchResult
            /\ pc' = "loop"
    /\ UNCHANGED <<config, normVars, direct, pairVars, query, store, url, attempt, lastError, response, searchResult,
                   calls, observed, abandoned>>

\* client.ts:104-108  first pass of the loop: no sleep, fetchFn(url) is invoked
FirstAttempt ==
    /\ pc = "loop"
    /\ LoopContinues(attempt, maxRetries)
    /\ attempt = 0
    /\ nTransport' = nTransport + 1
    /\ pc' = "fetching"
    /\ UNCHANGED <<config, normVars, direct, pairVars, query, store, locals, fetchResult, searchResult, calls, nFail,
                   waits, nSets, storeAtStart, lastOutcome, abandoned>>

\* client.ts:105-107  a retry: await sleep(delay)
BackoffSleep ==
    /\ pc = "loop"
    /\ LoopContinues(attempt, maxRetries)
    /\ attempt > 0
    /\ waits' = Append(waits, RetryDelay(attempt))
    /\ pc' = "sleeping"
    /\ UNCHANGED <<config, normVars, direct, pairVars, query, store, locals, fetchResult, searchResult, calls,
                   nTransport, nFail, nSets, storeAtStart, lastOutcome,
                   abandoned>>

\* the sleep timer fires; client.ts:112 fetchFn(url) is invoked
Wake ==
    /\ pc = "sleeping"
    /\ nTransport' = nTransport + 1
    /\ pc' = "fetching"
    /\ UNCHANGED <<config, normVars, direct, pairVars, query, store, locals, fetchResult, searchResult, calls, nFail,
                   waits, nSets, storeAtStart, lastOutcome, abandoned>>

\* client.ts:113-116  the race of the attempt rejects: catch, lastError = error, continue
AttemptRejects(err, kind) ==
    /\ lastError' = NextLastError(lastError, err)
    /\ attempt' = NextAttempt(attempt)
    /\ nFail' = nFail + 1
    /\ lastOutcome' = Outcome(kind, 0, Null, err.code)
    /\ abandoned' = abandoned + RaceLeaves(kind)
    /\ pc' = "loop"
    /\ UNCHANGED <<config, normVars, direct, pairVars, query, store, url, cached, response, fetchResult, searchResult,
                   calls, nTransport, waits, nSets, storeAtStart>>

\* fetchFn(url) rejects before the timer fires
TransportThrows(code) ==
    /\ pc = "fetching"
    /\ AttemptRejects(ThrownError(code), "thrown")

\* the timer of withTimeout fires before fetchFn(url) settles
TimeoutFires ==
    /\ pc = "fetching"
    /\ AttemptRejects(WithTimeoutError(timeout), "timeout")

\* fetchFn(url) resolves before the timer fires; client.ts:118-137
TransportResponds(status, body) ==
    /\ pc = "fetching"
    /\ lastOutcome' = Outcome("response", status, body, 0)
    /\ abandoned' = abandoned + RaceLeaves("response")
    /\ IF IsClientError(status)
       THEN \* return response
            /\ fetchResult' = Returned(status, body)
            /\ pc' = "fetched"
            /\ UNCHANGED <<attempt, lastError, response, nFail>>
       ELSE IF ~IsOk(status)
            THEN \* lastError = new Error(`HTTP ${response.status}`); continue
                 /\ lastError' = NextLastError(lastError, HttpError(status))
                 /\ attempt' = NextAttempt(attempt)
                 /\ nFail' = nFail + 1
                 /\ pc' = "loop"
                 /\ UNCHANGED <<fetchResult, response>>
            ELSE IF useCache
                 THEN \* await response.arrayBuffer(); then cache.set is called
                      /\ response' = Returned(status, body)
                      /\ pc' = "caching"
                      /\ UNCHANGED <<attempt, lastError, fetchResult, nFail>>
                 ELSE \* return response
                      /\ fetchResult' = Returned(status, body)
                      /\ pc' = "fetched"
                      /\ UNCHANGED <<attempt, lastError, response, nFail>>
    /\ UNCHANGED <<config, normVars, direct, pairVars, query, store, url, cached, searchResult, calls, nTransport,
                   waits, nSets, storeAtStart>>

\* client.ts:133-134  await this.cache.set(url, buffer) resolves; then
\* new Response(buffer, { status: response.status }), which throws a TypeError
\* when the status is a null body status (buffer is a body, even when empty)
CacheSetDone ==
    /\ pc = "caching"
    /\ nSets' = nSets + 1
    /\ store' = CacheSetFiles(useCache, store, url, response.body)
    /\ expected' = [expected EXCEPT ![url] = response.body]
    /\ fetchResult' = FreshResponse(response.status, response.body)
    /\ pc' = "fetched"
    /\ UNCHANGED <<config, normVars, api, pairVars, query, locals, searchResult, calls, nTransport, nFail,
                   waits, storeAtStart, lastOutcome, abandoned>>

\* client.ts:133  await this.cache.set(url, buffer) rejects: mkdir or writeFile
\* failed (cache.ts:21-26 has no catch) and the rejection leaves the fetch
\* function.  A writeFile that failed after opening the file leaves it truncated.
CacheSetFails(opened) ==
    /\ pc = "caching"
    /\ nSets' = nSets + 1
    /\ store' = CacheSetBroken(store, url, opened)
    /\ expected' = IF opened THEN [expected EXCEPT ![url] = Truncated] ELSE expected
    /\ fetchResult' = Raised(FsError)
    /\ pc' = "fetched"
    /\ UNCHANGED <<config, normVars, api, pairVars, query, locals, searchResult, calls, nTransport, nFail,
                   waits, storeAtStart, lastOutcome, abandoned>>

\* client.ts:131  await response.arrayBuffer() rejects: the body of the
\* transport's response failed to arrive; the rejection leaves the fetch function
BodyReadFails ==
    /\ pc = "caching"
    /\ fetchResult' = Raised(BodyError)
    /\ pc' = "fetched"
    /\ UNCHANGED <<config, normVars, direct, pairVars, query, store, locals, searchResult, calls, observed, abandoned>>

\* client.ts:140  throw lastError, once the loop condition fails
LoopExit ==
    /\ pc = "loop"
    /\ ~LoopContinues(attempt, maxRetries)
    /\ fetchResult' = Raised(lastError)
    /\ pc' = "fetched"
    /\ UNCHANGED <<config, normVars, direct, pairVars, query, store, locals, searchResult, calls, observed, abandoned>>

\* projects.ts:82-92, 160-167  search after the fetch function settled.  The
\* response is the transport's own object, whose body may fail to arrive, only
\* when the cache is off: with the cache on, an ok response is built from a
\* Buffer (client.ts:97, 134).
SearchReturn(readable) ==
    /\ pc = "fetched"
    /\ readable \/ (~useCache /\ SearchOutcome(fetchResult).kind = "content")
    /\ searchResult' = ReadAndParse(SearchOutcome(fetchResult), readable)
    /\ pc' = "done"
    /\ UNCHANGED <<config, normVars, direct, pairVars, query, store, locals, fetchResult, calls, observed, abandoned>>

\* client.ts:111-116  the assignments of the try block, response = await ... and
\* lastError = error, as they are reached by a promise that settles with o after
\* the race it was part of has settled
LoserSettles(o) ==
    LET d == LateDelivery(o) IN
    /\ response' = IF d.kind = "response" THEN Returned(d.status, d.body) ELSE response
    /\ lastError' = IF d.kind = "thrown" THEN ThrownError(d.code)
                     ELSE IF d.kind = "timeout" THEN WithTimeoutError(d.code)
                     ELSE lastError
    /\ UNCHANGED <<config, normVars, direct, pairVars, query, store, pc, url, cached, attempt, fetchResult, searchResult,
                   calls, observed>>

\* a transport promise that lost its race to the timer settles, with a response
\* or a rejection
LateSettle(o) ==
    /\ abandoned > 0
    /\ abandoned' = abandoned - 1
    /\ LoserSettles(o)

\* the timer of an attempt whose race the transport promise won fires: setTimeout
\* is never cleared (client.ts:150-152)
StaleTimerFires ==
    /\ lastOutcome.kind \in {"thrown", "response"}
    /\ abandoned' = abandoned
    /\ LoserSettles(Outcome("timeout", 0, Null, timeout))

\* the steps of a search once it has built its URL
FetchSteps ==
    \/ \E readOk \in BOOLEAN : CacheLookup(readOk)
    \/ FirstAttempt
    \/ BackoffSleep
    \/ Wake
    \/ \E code \in ThrownCodes : TransportThrows(code)
    \/ TimeoutFires
    \/ \E status \in Statuses : \E body \in ResponseBodies(status) :
            TransportResponds(status, body)
    \/ CacheSetDone
    \/ \E opened \in BOOLEAN : CacheSetFails(opened)
    \/ BodyReadFails
    \/ LoopExit
    \/ \E readable \in BOOLEAN : SearchReturn(readable)
    \/ \E o \in LateOutcomes : LateSettle(o)
    \/ StaleTimerFires

Next ==
    \/ \E u \in Urls : Search(u)
    \/ FetchSteps

Spec == Init /\ [][Next]_vars

(* ------------------------------ properties ---------------------------- *)

\* the fetch function of the current call has settled
FetchSettled == pc \in {"fetched", "done"}

\* transport calls of the current call that have been invoked and not settled
Outstanding == abandoned + (IF pc = "fetching" THEN 1 ELSE 0)

\* the error an attempt that ended with outcome o carries forward
ErrorOfOutcome(o) ==
    IF o.kind = "thrown" THEN Err("thrown", o.code)
    ELSE IF o.kind = "timeout" THEN Err("timeout", timeout)
    ELSE Err("http", o.status)

\* C1: when caching is enabled and the lookup of url yields the stored bytes,
\* fetch returns a response carrying exactly those bytes and makes no transport
\* invocation, no backoff wait and no cache write, for every maxRetries and
\* timeout.
C1_CacheHitShortCircuit ==
    cached # Null =>
        /\ useCache
        /\ FetchSettled
        /\ cached = storeAtStart[getCacheFilePath(url)]
        /\ fetchResult.kind = "response"
        /\ fetchResult.body = cached
        /\ nTransport = 0
        /\ waits = <<>>
        /\ nSets = 0
        /\ store = storeAtStart

C1_Witness ==
    /\ pc = "done"
    /\ cached \in Bodies
    /\ maxRetries > 0
    /\ searchResult.kind = "envelope"
    /\ searchResult.body = cached

\* C2 (as claimed): on a cache miss, when the transport failed transiently on
\* its first k <= maxRetries invocations and then returned a 2xx response, fetch
\* succeeds with that response after exactly k+1 transport invocations.
C2_RetryThenSuccess ==
    ( /\ FetchSettled
      /\ cached = Null
      /\ lastOutcome.kind = "response"
      /\ lastOutcome.status >= 200 /\ lastOutcome.status <= 299
      /\ nFail <= maxRetries )
    => /\ fetchResult = Returned(lastOutcome.status, lastOutcome.body)
       /\ nTransport = nFail + 1

\* C3: on a cache miss, if every transport attempt fails transiently, fetch
\* makes exactly maxRetries+1 transport invocations and then raises; no
\* execution makes more than maxRetries+1; search ends with a
\* KakenApiRequestError whenever fetch raised.
C3_ExhaustionRaises ==
    /\ nTransport <= maxRetries + 1
    /\ (FetchSettled /\ cached = Null /\ nFail = nTransport)
        => /\ nTransport = maxRetries + 1
           /\ fetchResult.kind = "raise"
    /\ (pc = "done" /\ fetchResult.kind = "raise")
        => searchResult.kind = "KakenApiRequestError"

C3_Witness ==
    /\ pc = "done"
    /\ maxRetries = 2
    /\ nFail = 3
    /\ nTransport = 3
    /\ searchResult.kind = "KakenApiRequestError"

\* C4: once an attempt (the first or a retry) has received a response with
\* status in [400,500), the fetch function has returned that same response:
\* no transport invocation, no backoff wait and no cache write follows it.
C4_ClientErrorReturnsAtOnce ==
    ( /\ lastOutcome.kind = "response"
      /\ lastOutcome.status >= 400 /\ lastOutcome.status < 500 )
    => /\ FetchSettled
       /\ fetchResult = Returned(lastOutcome.status, lastOutcome.body)
       /\ nTransport = nFail + 1
       /\ Len(waits) = nFail
       /\ nSets = 0
       /\ store = storeAtStart

C4_Witness ==
    /\ pc = "done"
    /\ lastOutcome.kind = "response"
    /\ lastOutcome.status = 400
    /\ nFail = 2
    /\ fetchResult.status = 400

\* C5 (as claimed): with caching enabled, a fetch call that completed
\* successfully from the network made exactly one cache write, of the response's
\* body under the requested url, and a call that ended by cache hit, by a 4xx
\* response or by raising made no cache write.
C5_OneWritePerNetworkSuccess ==
    (useCache /\ FetchSettled) =>
        /\ ( /\ fetchResult.kind = "response"
             /\ cached = Null
             /\ fetchResult.status >= 200 /\ fetchResult.status <= 299 )
            => /\ nSets = 1
               /\ store[getCacheFilePath(url)] = fetchResult.body
        /\ ( \/ cached # Null
             \/ fetchResult.kind = "raise"
             \/ ( /\ fetchResult.kind = "response"
                  /\ fetchResult.status >= 400 /\ fetchResult.status < 500 ) )
            => nSets = 0

\* C6: a 404 answered to the first transport call makes search end with
\* KakenApiNotFoundError (status 404) after exactly one transport invocation;
\* any other non-ok response the fetch function returns to search ends in
\* KakenApiRequestError carrying that status code.
C6_StatusMapping ==
    /\ ( /\ lastOutcome.kind = "response"
         /\ lastOutcome.status = 404
         /\ nFail = 0 )
        => /\ FetchSettled
           /\ nTransport = 1
           /\ pc = "done" =>
                /\ searchResult.kind = "KakenApiNotFoundError"
                /\ searchResult.statusCode = 404
    /\ ( /\ pc = "done"
         /\ fetchResult.kind = "response"
         /\ ~(fetchResult.status >= 200 /\ fetchResult.status <= 299)
         /\ fetchResult.status # 404 )
        => /\ searchResult.kind = "KakenApiRequestError"
           /\ searchResult.statusCode = fetchResult.status

C6_Witness ==
    /\ pc = "done"
    /\ lastOutcome.status = 404
    /\ nTransport = 1
    /\ searchResult.kind = "KakenApiNotFoundError"

\* C7: when all attempts are exhausted, the error fetch raises is the error of
\* the final attempt (the thrown error, the timeout error or the HTTP <status>
\* error of the last non-ok response), not that of an earlier attempt.
C7_LastErrorRaised ==
    (FetchSettled /\ cached = Null /\ nFail = nTransport)
        => fetchResult.error = ErrorOfOutcome(lastOutcome)

C7_Witness ==
    /\ pc = "done"
    /\ nFail = 3
    /\ nTransport = 3
    /\ lastOutcome.kind = "response"
    /\ fetchResult.error = Err("http", 503)

\* a step in which the current attempt ends as a rejection of its race
TimeoutStep == pc = "fetching" /\ pc' # "fetching" /\ lastOutcome'.kind = "timeout"
ThrownStep == pc = "fetching" /\ pc' # "fetching" /\ lastOutcome'.kind = "thrown"

\* what the code does with a rejected attempt, whatever rejected it
RetryableFailureEffect ==
    /\ attempt' = NextAttempt(attempt)
    /\ nFail' = nFail + 1
    /\ pc' = "loop"
    /\ nTransport' = nTransport
    /\ fetchResult' = fetchResult
    /\ store' = store
    /\ nSets' = nSets

\* the step that leaves the loop head after a rejected attempt
AfterFailureStep(kind) == pc = "loop" /\ pc' # "loop" /\ lastOutcome.kind = kind

\* a retry if attempts remain, the raise of the carried error otherwise
RetryOrRaise ==
    IF attempt <= maxRetries
    THEN pc' = "sleeping" /\ fetchResult' = fetchResult
    ELSE pc' = "fetched" /\ fetchResult' = Raised(lastError)

\* C8: an attempt whose transport call has not settled when the timeout
\* elapses ends with the timeout-specific error (carrying the configured ms) and
\* is handled exactly as an attempt whose transport call threw: it consumes one
\* of the maxRetries+1 attempts and is retried if attempts remain.
C8_TimeoutIsRetryable ==
    /\ [][TimeoutStep => (RetryableFailureEffect /\ lastError' = Err("timeout", timeout))]_vars
    /\ [][ThrownStep => RetryableFailureEffect]_vars
    /\ [][AfterFailureStep("timeout") => RetryOrRaise]_vars
    /\ [][AfterFailureStep("thrown") => RetryOrRaise]_vars
    /\ [](nTransport <= maxRetries + 1)

C8_Witness ==
    /\ pc = "fetching"
    /\ lastOutcome.kind = "timeout"
    /\ lastError = Err("timeout", timeout)
    /\ nFail = 2
    /\ nTransport = 3

\* the waits the claim lists, by retry number
ClaimedWait(n) == Min(1000 * 2 ^ (n - 1), 30000)
ListedWaits == <<1000, 2000, 4000, 8000, 16000, 30000, 30000, 30000>>

\* C9: there is no wait before the first attempt, and the wait before the n-th
\* retry (n = 1..maxRetries) is min(1000 ms * 2^(n-1), 30000 ms): 1000, 2000,
\* 4000, 8000, 16000, 30000, 30000, ... ms, never decreasing and never above
\* 30000 ms.
C9_BackoffSchedule ==
    /\ Len(waits) <= maxRetries
    /\ nTransport = 0 => waits = <<>>
    /\ pc = "sleeping" => Len(waits) = nTransport
    /\ pc # "sleeping" /\ nTransport > 0 => Len(waits) = nTransport - 1
    /\ \A n \in 1..Len(waits) :
        /\ waits[n] = ClaimedWait(n)
        /\ n <= Len(ListedWaits) => waits[n] = ListedWaits[n]
        /\ waits[n] <= 30000
        /\ n > 1 => waits[n - 1] <= waits[n]

C9_Witness ==
    /\ pc = "fetching"
    /\ Len(waits) = 6
    /\ waits[5] = 16000
    /\ waits[6] = 30000

\* C10 (as claimed): within one call at most one network round trip is
\* outstanding at any time, also when attempts end by timeout.
C10_AtMostOneOutstanding == Outstanding <= 1

\* C10 (amended): attempts are strictly sequential and never overlap: the
\* transport is invoked once per step, only when no attempt of the call is in
\* progress, and for a retry only out of its backoff wait; an attempt ends with
\* its transport call still unsettled only by timeout, so more than one
\* transport call is outstanding only through attempts that timed out.
C10_SequentialAttempts ==
    /\ [][nTransport' > nTransport =>
            /\ nTransport' = nTransport + 1
            /\ pc # "fetching" /\ pc' = "fetching"
            /\ Outstanding' = Outstanding + 1
            /\ IF nTransport = 0 THEN pc = "loop" ELSE pc = "sleeping"]_vars
    /\ [][Outstanding' > Outstanding => nTransport' = nTransport + 1]_vars
    /\ [][(pc = "fetching" /\ pc' # "fetching" /\ Outstanding' >= Outstanding)
            => lastOutcome'.kind = "timeout"]_vars
    /\ [](abandoned <= nFail)

C10_Witness ==
    /\ pc = "fetching"
    /\ abandoned = 2
    /\ nTransport = 3

(* ------------------------- the race of an attempt --------------------- *)

\* the step is the settlement of a promise that lost the race of its attempt:
\* the call is not at another place afterwards, and no call was started
LoserStep == pc' = pc /\ calls' = calls

\* the step decides the race of an attempt
RaceDecidedStep == pc = "fetching" /\ pc' # "fetching"

\* C11: in the race of an attempt between the transport call and the timer the
\* first settlement fixes the outcome of the attempt, and the settlement of the
\* loser afterwards changes nothing: it is not returned, not written to the
\* cache, and alters neither the attempt count nor the last error.
C11_LoserChangesNothing ==
    /\ [][LoserStep => UNCHANGED <<fetchResult, searchResult, store, nSets, attempt,
                                    lastError, response, cached, nTransport, nFail,
                                    waits, lastOutcome>>]_vars
    /\ [][(calls' = calls /\ ~RaceDecidedStep) => lastOutcome' = lastOutcome]_vars
    /\ [](FetchSettled /\ fetchResult.kind = "raise" /\ lastOutcome.kind = "timeout"
            => fetchResult.error = WithTimeoutError(timeout))

\* the only attempt of a call timed out, its transport call has settled since,
\* and the call stays failed with the timeout error
C11_Witness ==
    /\ pc = "done"
    /\ maxRetries = 0
    /\ nTransport = 1
    /\ lastOutcome.kind = "timeout"
    /\ abandoned = 0
    /\ fetchResult = Raised(WithTimeoutError(timeout))
    /\ \A p \in Paths : store[p] = storeAtStart[p]

(* ----------------------- failures of the cache storage ---------------- *)

\* C13: no failure of the cache storage makes a fetch or a search raise: an
\* entry that cannot be read counts as a miss, and when cache.set fails after a
\* 2xx answer of the transport the call still returns that answer.
C13_CacheFailuresAbsorbed ==
    /\ (FetchSettled /\ fetchResult.kind = "raise") => fetchResult.error # FsError
    /\ (pc = "done" /\ searchResult.kind = "KakenApiRequestError")
            => searchResult.cause # FsError

(* --------------------------- how a search ends ------------------------ *)

\* the classes derived from KakenApiError that search raises (exceptions.ts)
KakenApiErrors ==
    {"KakenApiRequestError", "KakenApiNotFoundError", "KakenApiResponseError"}

\* C14: every search ends either with a response envelope or with one error
\* that is an instance of KakenApiError; no other error leaves search from any
\* of its steps (validation, fetch, body read, parse).
C14_EnvelopeOrTypedError ==
    pc = "done" => searchResult.kind \in {"envelope"} \cup KakenApiErrors

(* ---------------- two fetch calls for one URL at the same time -------- *)
(* Two calls of the fetch function for the same URL on a client with the   *)
(* cache on and maxRetries 0, interleaved at every await.  The calls share *)
(* one cache file.  fs.writeFile is three steps on the file: open with     *)
(* flag 'w' (create or truncate), write at offset 0, close.                *)

\* writing bytes at offset 0 of a file that holds old
WriteAtStart(old, bytes) ==
    IF Len(bytes) >= Len(old) THEN bytes
    ELSE bytes \o SubSeq(old, Len(bytes) + 1, Len(old))

\* the states of the other scenarios, which two calls at once leave alone
single == <<store, pc, url, cached, attempt, lastError, response, fetchResult,
            searchResult, calls, observed, abandoned>>

InitPair ==
    /\ Init
    /\ useCache = TRUE
    /\ maxRetries = 0
    /\ timeout = DEFAULT_TIMEOUT_MS

\* client.ts:94-99  cached = await this.cache.get(url): a hit returns the bytes
\* of the file as they are, a miss enters the loop
PairLookup(i) ==
    /\ pair[i].pc = "idle"
    /\ pair' = [pair EXCEPT ![i] =
                    IF file.exists
                    THEN PairState("done", <<>>, "hit")
                    ELSE PairState("loop", <<>>, "pending")]
    /\ UNCHANGED <<config, normVars, direct, query, single, file, finished>>

\* client.ts:104-112  the only attempt: fetchFn(url) is invoked
PairInvoke(i) ==
    /\ pair[i].pc = "loop"
    /\ pair' = [pair EXCEPT ![i].pc = "fetching"]
    /\ UNCHANGED <<config, normVars, direct, query, single, file, finished>>

\* client.ts:112-131  fetchFn(url) answers 200 with body b; the body is read
PairResponds(i, b) ==
    /\ pair[i].pc = "fetching"
    /\ pair' = [pair EXCEPT ![i] = PairState("caching", BytesOf(b), "pending")]
    /\ UNCHANGED <<config, normVars, direct, query, single, file, finished>>

\* client.ts:113-116, 140  fetchFn(url) rejects: no retry is left, fetch raises
PairThrows(i) ==
    /\ pair[i].pc = "fetching"
    /\ pair' = [pair EXCEPT ![i] = PairState("done", <<>>, "raise")]
    /\ UNCHANGED <<config, normVars, direct, query, single, file, finished>>

\* cache.ts:23-25  mkdir, then writeFile opens the file for writing
PairOpens(i) ==
    /\ pair[i].pc = "caching"
    /\ file' = File(TRUE, <<>>)
    /\ pair' = [pair EXCEPT ![i].pc = "writing"]
    /\ UNCHANGED <<config, normVars, direct, query, single, finished>>

\* cache.ts:25  writeFile writes the buffer
PairWrites(i) ==
    /\ pair[i].pc = "writing"
    /\ file' = File(TRUE, WriteAtStart(file.bytes, pair[i].body))
    /\ pair' = [pair EXCEPT ![i].pc = "closing"]
    /\ UNCHANGED <<config, normVars, direct, query, single, finished>>

\* cache.ts:25  writeFile closes the file and cache.set resolves;
\* client.ts:134  return new Response(buffer, { status })
PairCloses(i) ==
    /\ pair[i].pc = "closing"
    /\ finished' = Append(finished, i)
    /\ pair' = [pair EXCEPT ![i] = PairState("done", pair[i].body, "response")]
    /\ UNCHANGED <<config, normVars, direct, query, single, file>>

NextPair ==
    \E i \in PairCalls :
        \/ PairLookup(i)
        \/ PairInvoke(i)
        \/ \E b \in Bodies : PairResponds(i, b)
        \/ PairThrows(i)
        \/ PairOpens(i)
        \/ PairWrites(i)
        \/ PairCloses(i)

SpecPair == InitPair /\ [][NextPair]_vars

\* C12: when two fetch calls for the same URL both miss the cache, both may
\* invoke the transport and both write the cache; neither fails because of the
\* other, and once both have completed the cache entry of the URL is the body
\* written by the call whose write finished last.
C12_LastWriteWins ==
    (/\ \A i \in PairCalls : pair[i].pc = "done"
     /\ Len(finished) = 2)
        => /\ \A i \in PairCalls : pair[i].result = "response"
           /\ file = File(TRUE, pair[finished[2]].body)

(* --------------- the cache used directly, between searches ------------ *)
(* client.cache is public: between two searches the caller may call get,   *)
(* set and clear on it.  The cache directory may hold entries written by   *)
(* an earlier client.  The client is built with maxRetries 0 or 1.         *)

\* no search is in progress
Quiet == pc \in {"idle", "done"}

\* the caller has taken the result of its last search and moved on: what was
\* recorded of that search is dropped
SearchForgotten ==
    /\ pc' = "idle"
    /\ url' = "urlA"
    /\ cached' = Null
    /\ attempt' = 0
    /\ lastError' = UnexpectedError
    /\ response' = NoResult
    /\ fetchResult' = NoResult
    /\ searchResult' = NoSearchResult
    /\ nTransport' = 0
    /\ nFail' = 0
    /\ waits' = <<>>
    /\ nSets' = 0
    /\ storeAtStart' = store
    /\ lastOutcome' = NoOutcome
    /\ abandoned' = 0
    /\ UNCHANGED calls

InitCache ==
    /\ useCache \in BOOLEAN
    /\ maxRetries \in {0, 1}
    /\ timeout = DEFAULT_TIMEOUT_MS
    /\ store \in [Paths -> {Absent, "body1"}]
    /\ expected = [u \in Urls |-> store[getCacheFilePath(u)]]
    /\ storeAtStart = store
    /\ pc = "idle"
    /\ url = "urlA"
    /\ cached = Null
    /\ attempt = 0
    /\ lastError = UnexpectedError
    /\ response = NoResult
    /\ fetchResult = NoResult
    /\ searchResult = NoSearchResult
    /\ calls = 0
    /\ nTransport = 0
    /\ nFail = 0
    /\ waits = <<>>
    /\ nSets = 0
    /\ lastOutcome = NoOutcome
    /\ abandoned = 0
    /\ api = NoApiCall
    /\ pair = [i \in PairCalls |-> PairIdle]
    /\ file = NoFile
    /\ finished = <<>>
    /\ query = NoQuery
    /\ input = NoInput
    /\ norm = NoNorm
    /\ parses = <<>>

\* await client.cache.get(u)
ApiGet(u, readOk) ==
    /\ Quiet
    /\ api' = ApiCall("get", u, CacheGet(useCache, store, u, readOk), ~readOk)
    /\ UNCHANGED <<config, normVars, expected, pairVars, query, store>>
    /\ SearchForgotten

\* await client.cache.set(u, content) resolves
ApiSet(u, content) ==
    /\ Quiet
    /\ store' = CacheSetFiles(useCache, store, u, content)
    /\ expected' = IF useCache THEN [expected EXCEPT ![u] = content] ELSE expected
    /\ api' = ApiCall("set", u, "resolved", FALSE)
    /\ UNCHANGED <<config, normVars, pairVars, query>>
    /\ SearchForgotten

\* await client.cache.set(u, content) rejects: mkdir or writeFile failed, which
\* an enabled cache alone can meet
ApiSetFails(u, opened) ==
    /\ Quiet
    /\ useCache
    /\ store' = CacheSetBroken(store, u, opened)
    /\ expected' = IF opened THEN [expected EXCEPT ![u] = Truncated] ELSE expected
    /\ api' = ApiCall("set", u, "rejected", TRUE)
    /\ UNCHANGED <<config, normVars, pairVars, query>>
    /\ SearchForgotten

\* await client.cache.clear()
ApiClear(listed) ==
    /\ Quiet
    /\ store' = CacheClearFiles(useCache, store, listed)
    /\ expected' = IF useCache /\ listed THEN [u \in DOMAIN expected |-> Absent] ELSE expected
    /\ api' = ApiCall("clear", "urlA", CacheClearSettles(useCache, listed), ~listed)
    /\ UNCHANGED <<config, normVars, pairVars, query>>
    /\ SearchForgotten

NextCache ==
    \/ Next
    \/ \E u \in Urls : \E readOk \in BOOLEAN : ApiGet(u, readOk)
    \/ \E u \in Urls : \E content \in Bodies : ApiSet(u, content)
    \/ \E u \in Urls : \E opened \in BOOLEAN : ApiSetFails(u, opened)
    \/ \E listed \in BOOLEAN : ApiClear(listed)

SpecCache == InitCache /\ [][NextCache]_vars

\* what get returns for a url whose entry is e
Got(e) == IF e = Absent THEN Null ELSE e

\* C15: on an enabled cache, get(url) after set(url, bytes), with no set of
\* that url and no clear in between, returns bytes; get of a url that was never
\* set, or was cleared, returns absent.  (A get whose file cannot be read
\* returns absent instead: that case is C13's.)
C15_SetThenGet ==
    (api.op = "get" /\ useCache /\ ~api.fault)
        => api.result = Got(expected[api.url])

\* a get that returned the bytes a set had stored, before any search
C15_Witness ==
    /\ useCache
    /\ calls = 0
    /\ api.op = "get"
    /\ ~api.fault
    /\ api.result = "body2"
    /\ expected[api.url] = "body2"

\* C16: with caching disabled, whatever get, set and clear calls are made, get
\* returns absent and the storage is left as it was; and with useCache false
\* the fetch function never reads or writes the cache and every fetch goes to
\* the transport.
C16_DisabledCacheInert ==
    /\ [](~useCache =>
            /\ api.op = "get" => api.result = Null
            /\ api.op \in {"set", "clear"} => api.result = "resolved"
            /\ pc # "lookup" /\ cached = Null
            /\ nSets = 0
            /\ FetchSettled => nTransport >= 1)
    /\ [][~useCache => store' = store]_vars

\* on a disabled cache a get returned absent for a URL whose file exists, after
\* a search went to the transport
C16_Witness ==
    /\ ~useCache
    /\ calls >= 1
    /\ api.op = "get"
    /\ api.result = Null
    /\ ~api.fault
    /\ store[getCacheFilePath(api.url)] = "body1"

Endpoints == {"projects", "researchers"}

\* ENDPOINTS.PROJECTS / ENDPOINTS.RESEARCHERS
BaseUrl(endpoint) ==
    IF endpoint = "projects" THEN "https://kaken.nii.ac.jp/opensearch/"
    ELSE "https://nrid.nii.ac.jp/opensearch/"

\* LIMITS.MAX_PROJECTS_RESULTS / LIMITS.MAX_RESEARCHERS_RESULTS
MaxResults(endpoint) ==
    IF endpoint = "projects" THEN MAX_PROJECTS_RESULTS ELSE MAX_RESEARCHERS_RESULTS

\* DEFAULTS.FORMAT_PROJECTS / DEFAULTS.FORMAT_RESEARCHERS
Format(endpoint) == IF endpoint = "projects" THEN "xml" ELSE "json"

\* params of a search: the endpoint it is called on, three of its condition
\* parameters, and the two paging parameters
Params(endpoint, keyword, projectType, grantPeriodFrom, startIndex, resultsPerPage) ==
    [endpoint |-> endpoint, keyword |-> keyword, projectType |-> projectType,
     grantPeriodFrom |-> grantPeriodFrom, startIndex |-> startIndex,
     resultsPerPage |-> resultsPerPage]

\* the condition parameters of the calls: none, an empty keyword, a keyword, an
\* empty list of project types (ProjectsAPI only), a grant period
Conditions(endpoint) ==
    {<<Undefined, Undefined, Undefined>>,
     <<JsString(""), Undefined, Undefined>>,
     <<JsString("kw"), Undefined, Undefined>>,
     <<Undefined, Undefined, JsNumber(0)>>}
        \cup (IF endpoint = "projects"
               THEN {<<Undefined, JsArray(<<>>), Undefined>>}
               ELSE {})

\* the startIndex values of the calls: absent, not a number, below 1, the
\* least, the greatest, and one above the greatest
StartIndexes(endpoint) ==
    {Undefined, NaN, JsNumber(0), JsNumber(1), JsNumber(MaxResults(endpoint)),
     JsNumber(MaxResults(endpoint) + 1)}

\* the resultsPerPage values of the calls: absent, not a number, one that is
\* not allowed, and one that is
ResultsPerPages == {Undefined, NaN, JsNumber(30), JsNumber(50)}

\* the calls: every condition with every startIndex and the default page
\* size, and a keyword search from the start with every resultsPerPage
ParamsOf(endpoint) ==
    {Params(endpoint, c[1], c[2], c[3], st, Undefined) :
        c \in Conditions(endpoint), st \in StartIndexes(endpoint)}
    \cup {Params(endpoint, JsString("kw"), Undefined, Undefined, Undefined, rpp) :
            rpp \in ResultsPerPages}

\* Boolean(v) of JavaScript
Truthy(v) ==
    CASE v.kind = "undefined" -> FALSE
      [] v.kind = "NaN" -> FALSE
      [] v.kind = "number" -> v.val # 0
      [] v.kind = "string" -> v.val # ""
      [] v.kind = "array" -> TRUE

\* a > n and a < n of JavaScript: false when a is NaN
JsGreater(a, n) == a.kind = "number" /\ a.val > n
JsLess(a, n) == a.kind = "number" /\ a.val < n

\* String(v)
JsText(v) ==
    IF v.kind = "NaN" THEN "NaN"
    ELSE IF v.kind = "string" THEN v.val ELSE ToString(v.val)

\* validateParams: hasCondition (projects.ts:120-137, part_003:141-155)
HasConditionAlways(p) == TRUE
HasCondition(p) ==
    \/ Truthy(p.keyword)
    \/ (p.endpoint = "projects" /\ Truthy(p.projectType))
    \/ p.grantPeriodFrom.kind # "undefined"

\* resolveStartIndex: the index, or a raise
StartIndexRaise == JsValue("raise", 0)
ResolveStartIndex(endpoint, startIndex) ==
    LET idx == IF startIndex.kind = "undefined"
               THEN JsNumber(DEFAULT_START_INDEX) ELSE startIndex
    IN  IF JsGreater(idx, MaxResults(endpoint)) THEN StartIndexRaise
        ELSE IF JsLess(idx, 1) THEN JsNumber(DEFAULT_START_INDEX) ELSE idx

\* resolveResultsPerPage
ResolveResultsPerPageAsGiven(resultsPerPage) ==
    IF resultsPerPage.kind = "number" THEN resultsPerPage.val
    ELSE DEFAULT_RESULTS_PER_PAGE
ResolveResultsPerPage(resultsPerPage) ==
    IF resultsPerPage.kind = "number" /\ resultsPerPage.val \in VALID_RESULTS_PER_PAGE
    THEN resultsPerPage.val
    ELSE DEFAULT_RESULTS_PER_PAGE

\* joinValues(ensureArray(v)): undefined for no values
JoinValues(v) ==
    IF v.kind = "undefined" \/ (v.kind = "array" /\ v.val = <<>>) THEN Undefined ELSE v

\* buildUrl: the entries that are not undefined, as key=value joined by &
RECURSIVE QueryText(_)
QueryText(entries) ==
    IF entries = <<>> THEN ""
    ELSE LET e == Head(entries)
             rest == QueryText(Tail(entries))
         IN  IF e[2].kind = "undefined" THEN rest
             ELSE e[1] \o "=" \o e[2].val \o (IF rest = "" THEN "" ELSE "&" \o rest)

BuildUrl(p, st, rw) ==
    BaseUrl(p.endpoint) \o "?" \o QueryText(<<
        <<"kw", p.keyword>>,
        <<"rw", JsString(ToString(rw))>>,
        <<"lang", JsString("ja")>>,
        <<"st", JsString(JsText(st))>>,
        <<"format", JsString(Format(p.endpoint))>>,
        <<"c6", IF p.endpoint = "projects" THEN JoinValues(p.projectType) ELSE Undefined>>,
        <<"s1", IF p.grantPeriodFrom.kind = "undefined" THEN Undefined
                ELSE JsString(JsText(p.grantPeriodFrom))>> >>)

\* the URLs the calls can build, and their cache files
ParamUrls ==
    UNION {{BuildUrl(p, ResolveStartIndex(e, p.startIndex),
                     ResolveResultsPerPage(p.resultsPerPage)) :
                p \in {q \in ParamsOf(e) :
                          ResolveStartIndex(e, q.startIndex) # StartIndexRaise}} :
           e \in Endpoints}
ParamPaths == {getCacheFilePath(u) : u \in ParamUrls}

\* the params carry no search condition: every condition parameter is absent
\* or the empty string
Bare(p) ==
    /\ p.keyword.kind = "undefined" \/ p.keyword = JsString("")
    /\ p.projectType.kind = "undefined"
    /\ p.grantPeriodFrom.kind = "undefined"

InitParams ==
    /\ useCache \in BOOLEAN
    /\ maxRetries = 1
    /\ timeout = DEFAULT_TIMEOUT_MS
    /\ store = [p \in ParamPaths |-> Absent]
    /\ expected = [u \in ParamUrls |-> Absent]
    /\ storeAtStart = store
    /\ pc = "idle"
    /\ url = "urlA"
    /\ cached = Null
    /\ attempt = 0
    /\ lastError = UnexpectedError
    /\ response = NoResult
    /\ fetchResult = NoResult
    /\ searchResult = NoSearchResult
    /\ calls = 0
    /\ nTransport = 0
    /\ nFail = 0
    /\ waits = <<>>
    /\ nSets = 0
    /\ lastOutcome = NoOutcome
    /\ abandoned = 0
    /\ api = NoApiCall
    /\ pair = [i \in PairCalls |-> PairIdle]
    /\ file = NoFile
    /\ finished = <<>>
    /\ query = NoQuery
    /\ input = NoInput
    /\ norm = NoNorm
    /\ parses = <<>>

\* search(params) up to the call of the fetch function (projects.ts:49-82,
\* part_003:77-107): a raise of validateParams or resolveStartIndex ends the
\* call, otherwise the URL is built and the fetch function entered
SearchUpTo(p, most) ==
    LET st == ResolveStartIndex(p.endpoint, p.startIndex)
        rw == ResolveResultsPerPage(p.resultsPerPage)
        raises == ~HasCondition(p) \/ st = StartIndexRaise
    IN
    /\ pc \in {"idle", "done"}
    /\ calls < most
    /\ calls' = calls + 1
    /\ query' = Query(p.endpoint, IF raises THEN Undefined ELSE st, rw,
                       p.startIndex, p.resultsPerPage, Bare(p))
    /\ url' = IF raises THEN "urlA" ELSE BuildUrl(p, st, rw)
    /\ cached' = Null
    /\ attempt' = 0
    /\ lastError' = UnexpectedError
    /\ response' = NoResult
    /\ fetchResult' = NoResult
    /\ searchResult' = IF raises
                       THEN SearchResult("KakenApiRequestError", 0, Null, NoError)
                       ELSE NoSearchResult
    /\ nTransport' = 0
    /\ nFail' = 0
    /\ waits' = <<>>
    /\ nSets' = 0
    /\ storeAtStart' = store
    /\ lastOutcome' = NoOutcome
    /\ abandoned' = 0
    /\ pc' = IF raises THEN "done" ELSE FetchEntry(useCache)
    /\ api' = NoApiCall
    /\ UNCHANGED <<config, normVars, expected, pairVars, store>>

SearchParams(p) == SearchUpTo(p, MaxParamCalls)

NextParams ==
    \/ \E e \in Endpoints : \E p \in ParamsOf(e) : SearchParams(p)
    \/ FetchSteps

SpecParams == InitParams /\ [][NextParams]_vars

C20_StartIndexInRange ==
    /\ (query.endpoint \in Endpoints /\ JsGreater(query.start, MaxResults(query.endpoint)))
            => /\ pc = "done"
               /\ searchResult.kind = "KakenApiRequestError"
               /\ nTransport = 0
    /\ nTransport >= 1
            => /\ query.st.kind = "number"
               /\ query.st.val \in 1..MaxResults(query.endpoint)

\* the text t occurs in the text s
Contains(s, t) ==
    \E i \in 1..(Len(s) - Len(t) + 1) : SubSeq(s, i, i + Len(t) - 1) = t

\* C21: the rw of the request URL is the caller's resultsPerPage when that is
\* one of 20, 50, 100, 200, 500, and 20 otherwise (also when absent); a value
\* that is not allowed is corrected silently: search raises before the
\* transport only for a missing condition or a startIndex above the maximum.
C21_ResultsPerPageSent ==
    LET given == query.perPage
        allowed == given.kind = "number" /\ given.val \in {20, 50, 100, 200, 500}
        sent == IF allowed THEN given.val ELSE 20
    IN  /\ nTransport >= 1 => Contains(url, "rw=" \o ToString(sent) \o "&")
        /\ (query.endpoint \in Endpoints /\ searchResult.kind = "KakenApiRequestError"
                /\ nTransport = 0 /\ fetchResult = NoResult)
              => \/ query.bare
                 \/ JsGreater(query.start, MaxResults(query.endpoint))

\* a resultsPerPage of 30, which is not allowed, went out as rw=20 and the
\* search came back with an envelope
C21_Witness ==
    /\ query.perPage = JsNumber(30)
    /\ query.endpoint = "researchers"
    /\ nTransport >= 1
    /\ Contains(url, "rw=20&")
    /\ pc = "done"
    /\ searchResult.kind = "envelope"

(* -------------------- the locale lookups of the parsers ---------------- *)
(* extractLocalizedText, extractEnglishText and extractKanaText of          *)
(* ResearchersAPI, each called once on a localized value array.             *)

\* the most entries in an array handed to a function of the normalizers
MaxValues == 2

\* the variables of the client, which the normalizers never touch
clientVars == <<useCache, maxRetries, timeout, store, pc, url, cached, attempt,
                lastError, response, fetchResult, searchResult, calls, nTransport,
                nFail, waits, nSets, storeAtStart, lastOutcome, abandoned,
                api, expected, pair, file, finished, query>>

\* a client with default options that has made no call
ClientIdle ==
    /\ useCache = TRUE
    /\ maxRetries = 3
    /\ timeout = DEFAULT_TIMEOUT_MS
    /\ store = [p \in Paths |-> Absent]
    /\ expected = [u \in Urls |-> Absent]
    /\ storeAtStart = store
    /\ pc = "idle"
    /\ url = "urlA"
    /\ cached = Null
    /\ attempt = 0
    /\ lastError = UnexpectedError
    /\ response = NoResult
    /\ fetchResult = NoResult
    /\ searchResult = NoSearchResult
    /\ calls = 0
    /\ nTransport = 0
    /\ nFail = 0
    /\ waits = <<>>
    /\ nSets = 0
    /\ lastOutcome = NoOutcome
    /\ abandoned = 0
    /\ api = NoApiCall
    /\ pair = [i \in PairCalls |-> PairIdle]
    /\ file = NoFile
    /\ finished = <<>>
    /\ query = NoQuery

\* a JSON object / an XML element: its kind and its members
JsObject(members) == JsValue("object", members)
JsNull == JsValue("null", 0)
JsBoolean(b) == JsValue("boolean", b)

\* an entry { lang, text } of a localized value array
LangEntry(lang, text) == JsObject([lang |-> lang, text |-> text])

\* the entries of the arrays: every tag (or none) with a text, another text
\* or a text that is not a string, and two entries that are not objects
LangEntries ==
    {LangEntry(l, t) :
        l \in {Undefined, JsString("ja"), JsString("en"), JsString("ja-Kana")},
        t \in {JsNumber(7), JsString("A"), JsString("B")}}
    \cup {JsNull, JsString("s")}

\* sequences of at most n members of S
SeqsUpTo(S, n) == UNION {[1..k -> S] : k \in 0..n}

\* the values the lookups are called with: absent, not an array, an array
LocaleInputs ==
    {Undefined, JsString("s")} \cup {JsArray(q) : q \in SeqsUpTo(LangEntries, MaxValues)}

\* values.find(v => typeof v === 'object' && v !== null && v.lang === tag)
RECURSIVE FindLang(_, _)
FindLang(entries, tag) ==
    IF entries = <<>> THEN Undefined
    ELSE IF Head(entries).kind = "object" /\ Head(entries).val.lang = JsString(tag)
         THEN Head(entries)
         ELSE FindLang(Tail(entries), tag)

\* typeof entry?.text === 'string' ? entry.text : undefined
EntryText(entry) ==
    IF entry.kind = "object" /\ entry.val.text.kind = "string"
    THEN entry.val.text ELSE Undefined

\* extractLocalizedText
ExtractLocalizedText(values) ==
    IF values.kind # "array" \/ values.val = <<>> THEN Undefined
    ELSE LET jaEntry == FindLang(values.val, "ja")
             entry == IF jaEntry # Undefined THEN jaEntry ELSE values.val[1]
         IN  EntryText(entry)

\* extractEnglishText
ExtractEnglishTextOrFirst(values) == ExtractLocalizedText(values)
ExtractEnglishText(values) ==
    IF values.kind # "array" \/ values.val = <<>> THEN Undefined
    ELSE EntryText(FindLang(values.val, "en"))

\* extractKanaText
ExtractKanaText(values) ==
    IF values.kind # "array" \/ values.val = <<>> THEN Undefined
    ELSE EntryText(FindLang(values.val, "ja-Kana"))

InitLocale ==
    /\ ClientIdle
    /\ input \in LocaleInputs
    /\ norm = NoNorm
    /\ parses = <<>>

ExtractLocalizedTextCall ==
    /\ norm = NoNorm
    /\ norm' = Norm("extractLocalizedText", ExtractLocalizedText(input))
    /\ UNCHANGED <<clientVars, input, parses>>

ExtractEnglishTextCall ==
    /\ norm = NoNorm
    /\ norm' = Norm("extractEnglishText", ExtractEnglishText(input))
    /\ UNCHANGED <<clientVars, input, parses>>

ExtractKanaTextCall ==
    /\ norm = NoNorm
    /\ norm' = Norm("extractKanaText", ExtractKanaText(input))
    /\ UNCHANGED <<clientVars, input, parses>>

NextLocale ==
    \/ ExtractLocalizedTextCall
    \/ ExtractEnglishTextCall
    \/ ExtractKanaTextCall

SpecLocale == InitLocale /\ [][NextLocale]_vars

\* the tag each lookup asks for
LookupTag ==
    [extractLocalizedText |-> "ja", extractEnglishText |-> "en",
     extractKanaText |-> "ja-Kana"]
Lookups == DOMAIN LookupTag

\* the places of the candidates carrying the tag
Carrying(values, tag) ==
    {i \in 1..Len(values.val) :
        values.val[i].kind = "object" /\ values.val[i].val.lang = JsString(tag)}

\* the text of a candidate, no value when it has none
CandidateText(c) ==
    IF c.kind = "object" /\ c.val.text.kind = "string" THEN c.val.text ELSE Undefined

\* the text of the first candidate carrying the tag, no value when none does
TaggedText(values, tag) ==
    IF values.kind # "array" \/ Carrying(values, tag) = {} THEN Undefined
    ELSE LET first == CHOOSE i \in Carrying(values, tag) :
                          \A j \in Carrying(values, tag) : i <= j
         IN  CandidateText(values.val[first])

\* the same, with the text of the first candidate when none carries the tag
TaggedOrFirstText(values, tag) ==
    IF values.kind # "array" \/ values.val = <<>> THEN Undefined
    ELSE IF Carrying(values, tag) # {} THEN TaggedText(values, tag)
    ELSE CandidateText(values.val[1])

\* C22 as stated: every lookup returns the text of the first candidate
\* carrying its tag, the text of the first candidate when none carries it, and
\* no value for an empty or absent sequence, the three lookups differing only
\* in the tag.
C22_SameRuleForEveryTag ==
    norm.fn \in Lookups => norm.out = TaggedOrFirstText(input, LookupTag[norm.fn])

\* C22 amended: the Japanese-preferred lookup returns the text of the first
\* candidate tagged 'ja', else the text of the first candidate; the English and
\* the phonetic lookup return the text of the first candidate tagged 'en' /
\* 'ja-Kana' and no value when no candidate carries the tag; each returns no
\* value, never an error, for an empty or absent sequence.
C22_LocaleRule ==
    /\ norm.fn = "extractLocalizedText" => norm.out = TaggedOrFirstText(input, "ja")
    /\ norm.fn \in {"extractEnglishText", "extractKanaText"}
            => norm.out = TaggedText(input, LookupTag[norm.fn])
    /\ norm.fn \in Lookups /\ (input.kind # "array" \/ input.val = <<>>)
            => norm.out = Undefined

\* the phonetic lookup on candidates of which the first has a text and none is
\* tagged 'ja-Kana' returned no value
C22_Witness ==
    /\ norm.fn = "extractKanaText"
    /\ input = JsArray(<<LangEntry(JsString("ja"), JsString("A")),
                         LangEntry(JsString("en"), JsString("B"))>>)
    /\ norm.out = Undefined

(* ------------- the codes of institution, department, job title -------- *)
(* parseInstitution, parseDepartment and parseJobTitle of ResearchersAPI,   *)
(* each called once on the data of its entity.                              *)

\* priority-ordered ID keys
INSTITUTION_ID_KEYS_KakenhiFirst ==
    <<"id:institution:kakenhi", "id:institution:erad", "id:institution:mext",
      "id:institution:jsps", "id:institution:jst">>
INSTITUTION_ID_KEYS ==
    <<"id:institution:erad", "id:institution:kakenhi", "id:institution:mext",
      "id:institution:jsps", "id:institution:jst">>
DEPARTMENT_ID_KEYS ==
    <<"id:department:erad", "id:department:mext", "id:department:jsps",
      "id:department:jst">>
JOB_TITLE_ID_KEYS ==
    <<"id:jobTitle:erad", "id:jobTitle:mext", "id:jobTitle:jsps", "id:jobTitle:jst">>

\* the members of a sequence
Range(q) == {q[i] : i \in DOMAIN q}

\* what an ID key of the data may hold: nothing, a number, a string (one per
\* key, so that the value tells the key it came from)
IdValues(k) == {Undefined, JsNumber(5), JsString("code of " \o k)}

\* the humanReadableValue of the data: absent, or one Japanese name
HumanReadableValues ==
    {Undefined, JsArray(<<LangEntry(JsString("ja"), JsString("A"))>>)}

\* the data of an entity: its ID keys, humanReadableValue and, for an
\* institution, category:institution:kakenhi
EntityData(keys, categories) ==
    {JsObject(ids @@ [humanReadableValue |-> h, category |-> c]) :
        ids \in {f \in [Range(keys) -> UNION {IdValues(k) : k \in Range(keys)}] :
                    \A k \in Range(keys) : f[k] \in IdValues(k)},
        h \in HumanReadableValues, c \in categories}
InstitutionData == EntityData(INSTITUTION_ID_KEYS, {Undefined, JsString("university")})
DepartmentData == EntityData(DEPARTMENT_ID_KEYS, {Undefined})
JobTitleData == EntityData(JOB_TITLE_ID_KEYS, {Undefined})

\* KEYS.map((k) => data[k]).find((v) => typeof v === 'string')
RECURSIVE FindCode(_, _)
FindCode(keys, data) ==
    IF keys = <<>> THEN Undefined
    ELSE IF data.val[Head(keys)].kind = "string" THEN data.val[Head(keys)]
    ELSE FindCode(Tail(keys), data)

\* !name of a name that is a string or undefined
NoName(name) == name = Undefined \/ name = JsString("")

\* parseInstitution
ParseInstitution(data) ==
    LET name == ExtractLocalizedText(data.val.humanReadableValue)
    IN  IF NoName(name) THEN Undefined
        ELSE JsObject([name |-> name, code |-> FindCode(INSTITUTION_ID_KEYS, data),
                       type |-> IF data.val.category.kind = "string"
                                THEN data.val.category ELSE Undefined])

\* parseDepartment
ParseDepartment(data) ==
    LET name == ExtractLocalizedText(data.val.humanReadableValue)
    IN  IF NoName(name) THEN Undefined
        ELSE JsObject([name |-> name, code |-> FindCode(DEPARTMENT_ID_KEYS, data)])

\* parseJobTitle
ParseJobTitle(data) ==
    LET name == ExtractLocalizedText(data.val.humanReadableValue)
    IN  IF NoName(name) THEN Undefined
        ELSE JsObject([name |-> name, code |-> FindCode(JOB_TITLE_ID_KEYS, data)])

InitCodes ==
    /\ ClientIdle
    /\ input \in InstitutionData \cup DepartmentData \cup JobTitleData
    /\ norm = NoNorm
    /\ parses = <<>>

ParseInstitutionCall ==
    /\ norm = NoNorm
    /\ input \in InstitutionData
    /\ norm' = Norm("parseInstitution", ParseInstitution(input))
    /\ UNCHANGED <<clientVars, input, parses>>

ParseDepartmentCall ==
    /\ norm = NoNorm
    /\ input \in DepartmentData
    /\ norm' = Norm("parseDepartment", ParseDepartment(input))
    /\ UNCHANGED <<clientVars, input, parses>>

ParseJobTitleCall ==
    /\ norm = NoNorm
    /\ input \in JobTitleData
    /\ norm' = Norm("parseJobTitle", ParseJobTitle(input))
    /\ UNCHANGED <<clientVars, input, parses>>

NextCodes ==
    \/ ParseInstitutionCall
    \/ ParseDepartmentCall
    \/ ParseJobTitleCall

SpecCodes == InitCodes /\ [][NextCodes]_vars

\* the priority order of the keys, by the function resolving the code
PriorityOrder ==
    [parseInstitution |-> <<"id:institution:erad", "id:institution:kakenhi",
                            "id:institution:mext", "id:institution:jsps",
                            "id:institution:jst">>,
     parseDepartment |-> <<"id:department:erad", "id:department:mext",
                           "id:department:jsps", "id:department:jst">>,
     parseJobTitle |-> <<"id:jobTitle:erad", "id:jobTitle:mext",
                         "id:jobTitle:jsps", "id:jobTitle:jst">>]

\* the places in the order whose key holds a string in the data
HoldingString(order, data) ==
    {i \in DOMAIN order : data.val[order[i]].kind = "string"}

\* C23: the code of an institution, a department or a job title is the value
\* of the first key, in the priority order of the entity, whose value is a
\* string: no key of lower priority is chosen while one of higher priority
\* holds a string, and the code is omitted when no key holds a string.
C23_CodeByPriority ==
    (norm.fn \in DOMAIN PriorityOrder /\ norm.out # Undefined) =>
        LET order == PriorityOrder[norm.fn]
            held == HoldingString(order, input)
        IN  /\ held = {} => norm.out.val.code = Undefined
            /\ held # {} =>
                 \E i \in held :
                    /\ \A j \in held : i <= j
                    /\ norm.out.val.code = input.val[order[i]]

\* an institution whose erad key holds a number and whose kakenhi and mext keys
\* hold strings got the kakenhi code
C23_Witness ==
    /\ norm.fn = "parseInstitution"
    /\ input \in InstitutionData
    /\ input.val["id:institution:erad"] = JsNumber(5)
    /\ input.val["id:institution:kakenhi"].kind = "string"
    /\ input.val["id:institution:mext"].kind = "string"
    /\ norm.out # Undefined
    /\ norm.out.val.code = input.val["id:institution:kakenhi"]

(* ------------------------ the affiliation lists ------------------------ *)
(* parseResearcher of ResearchersAPI on the affiliations:current and        *)
(* affiliations:history of a researcher, and parseMembers of ProjectsAPI on *)
(* the affiliation elements of a member.                                    *)

\* the entity data of the affiliation entries of a researcher: with no ID key
\* and no category, nameless or named
PlainEntities(data, keys) ==
    {d \in data : /\ d.val.category = Undefined
                  /\ \A k \in Range(keys) : d.val[k] = Undefined}

\* an entry of affiliations:current / affiliations:history
AffiliationEntry(institution, department, jobTitle) ==
    JsObject([institution |-> institution, department |-> department,
              jobTitle |-> jobTitle])

\* the entries: institution and job title absent, nameless or named, department
\* absent or named
AffiliationEntries ==
    {AffiliationEntry(i, d, j) :
        i \in {Undefined} \cup PlainEntities(InstitutionData, INSTITUTION_ID_KEYS),
        d \in {Undefined} \cup {x \in PlainEntities(DepartmentData, DEPARTMENT_ID_KEYS) :
                                    x.val.humanReadableValue # Undefined},
        j \in {Undefined} \cup PlainEntities(JobTitleData, JOB_TITLE_ID_KEYS)}

\* a researcher of the response with one of its two affiliation arrays
ResearcherData ==
    {JsObject([current |-> JsArray(q), history |-> Undefined]) :
        q \in SeqsUpTo(AffiliationEntries, MaxValues)}
    \cup {JsObject([current |-> Undefined, history |-> JsArray(q)]) :
            q \in SeqsUpTo(AffiliationEntries, MaxValues)}

\* parseAffiliation; the entries carry no sequence, since or until
ParseAffiliationKeepingAll(data) ==
    JsObject([institution |-> IF data.val.institution # Undefined
                               THEN ParseInstitution(data.val.institution)
                               ELSE Undefined,
              department |-> IF data.val.department # Undefined
                              THEN ParseDepartment(data.val.department)
                              ELSE Undefined,
              jobTitle |-> IF data.val.jobTitle # Undefined
                            THEN ParseJobTitle(data.val.jobTitle) ELSE Undefined])
ParseAffiliation(data) ==
    LET institution == IF data.val.institution # Undefined
                       THEN ParseInstitution(data.val.institution) ELSE Undefined
        department == IF data.val.department # Undefined
                      THEN ParseDepartment(data.val.department) ELSE Undefined
        jobTitle == IF data.val.jobTitle # Undefined
                    THEN ParseJobTitle(data.val.jobTitle) ELSE Undefined
    IN  IF institution = Undefined /\ department = Undefined /\ jobTitle = Undefined
        THEN Undefined
        ELSE JsObject([institution |-> institution, department |-> department,
                       jobTitle |-> jobTitle])

\* for (const item of items) { const a = parseAffiliation(item); if (a) push(a) }
RECURSIVE PushAffiliations(_)
PushAffiliations(items) ==
    IF items = <<>> THEN <<>>
    ELSE LET affiliation == ParseAffiliation(Head(items))
         IN  (IF affiliation # Undefined THEN <<affiliation>> ELSE <<>>)
                 \o PushAffiliations(Tail(items))

\* parseResearcher: currentAffiliations and historicalAffiliations
ParseResearcher(data) ==
    JsObject([currentAffiliations |->
                  IF data.val.current.kind = "array"
                  THEN JsArray(PushAffiliations(data.val.current.val))
                  ELSE JsArray(<<>>),
              historicalAffiliations |->
                  IF data.val.history.kind = "array"
                  THEN JsArray(PushAffiliations(data.val.history.val))
                  ELSE Undefined])

\* ensureArray
EnsureArray(value) ==
    IF value.kind = "undefined" THEN <<>>
    ELSE IF value.kind = "array" THEN value.val ELSE <<value>>

\* an XML element with attributes: its #text and its @_niiCode
Element(text, niiCode) == JsObject([text |-> text, niiCode |-> niiCode])

\* extractText
ExtractText(node) ==
    CASE node.kind = "string" -> IF node.val = "" THEN Undefined ELSE node
      [] node.kind = "number" -> JsString(ToString(node.val))
      [] node.kind = "object" ->
            (CASE node.val.text.kind = "string" ->
                      IF node.val.text.val = "" THEN Undefined ELSE node.val.text
               [] node.val.text.kind = "number" -> JsString(ToString(node.val.text.val))
               [] OTHER -> Undefined)
      [] OTHER -> Undefined

\* an affiliation element of a member
MemberAffiliation(institution, department, jobTitle) ==
    JsObject([institution |-> institution, department |-> department,
              jobTitle |-> jobTitle])

\* the affiliation elements: institution absent, without text or with a text,
\* department absent or a text, job title absent or an element with a code
MemberAffiliations ==
    {MemberAffiliation(i, d, j) :
        i \in {Undefined, JsArray(<<JsString("")>>), JsArray(<<JsString("I")>>)},
        d \in {Undefined, JsString("D")},
        j \in {Undefined, Element(JsString("J"), JsString("c"))}}

\* a member element with its affiliation elements
MemberData ==
    {JsObject([affiliation |-> a]) :
        a \in {Undefined} \cup {JsArray(q) : q \in SeqsUpTo(MemberAffiliations, MaxValues)}}

\* typeof node?.['@_niiCode'] === 'string' && { code }
CodeOf(node) ==
    IF node.kind = "object" /\ node.val.niiCode.kind = "string"
    THEN node.val.niiCode ELSE Undefined

\* parseMemberAffiliation: no affiliation or one
ParseMemberAffiliation(aff) ==
    LET instNodes == EnsureArray(aff.val.institution)
        deptNode == aff.val.department
        jobNode == aff.val.jobTitle
        instName == IF instNodes # <<>> THEN ExtractText(instNodes[1]) ELSE Undefined
        deptName == ExtractText(deptNode)
        jobName == ExtractText(jobNode)
    IN  IF NoName(instName) /\ NoName(deptName) /\ NoName(jobName) THEN <<>>
        ELSE <<JsObject([
                 institution |-> IF instName # Undefined
                                 THEN JsObject([name |-> instName,
                                                code |-> CodeOf(instNodes[1])])
                                 ELSE Undefined,
                 department |-> IF deptName # Undefined
                                THEN JsObject([name |-> deptName, code |-> CodeOf(deptNode)])
                                ELSE Undefined,
                 jobTitle |-> IF jobName # Undefined
                              THEN JsObject([name |-> jobName, code |-> CodeOf(jobNode)])
                              ELSE Undefined])>>

\* affiliationNodes.flatMap((aff) => parseMemberAffiliation(aff))
RECURSIVE FlatMapAffiliations(_)
FlatMapAffiliations(nodes) ==
    IF nodes = <<>> THEN <<>>
    ELSE ParseMemberAffiliation(Head(nodes)) \o FlatMapAffiliations(Tail(nodes))

\* parseMembers: the affiliations of a member, omitted when there is none
MemberAffiliationsOf(m) ==
    LET affiliationNodes == EnsureArray(m.val.affiliation)
        affiliations == FlatMapAffiliations(affiliationNodes)
    IN  IF affiliationNodes # <<>> /\ affiliations # <<>>
        THEN JsArray(affiliations) ELSE Undefined

InitAffiliations ==
    /\ ClientIdle
    /\ input \in ResearcherData \cup MemberData
    /\ norm = NoNorm
    /\ parses = <<>>

ParseResearcherCall ==
    /\ norm = NoNorm
    /\ "current" \in DOMAIN input.val
    /\ norm' = Norm("parseResearcher", ParseResearcher(input))
    /\ UNCHANGED <<clientVars, input, parses>>

ParseMembersCall ==
    /\ norm = NoNorm
    /\ "affiliation" \in DOMAIN input.val
    /\ norm' = Norm("parseMembers", MemberAffiliationsOf(input))
    /\ UNCHANGED <<clientVars, input, parses>>

NextAffiliations ==
    \/ ParseResearcherCall
    \/ ParseMembersCall

SpecAffiliations == InitAffiliations /\ [][NextAffiliations]_vars

\* the affiliation lists of what the call returned
ListsProduced ==
    IF norm.fn = "parseResearcher"
    THEN {norm.out.val.currentAffiliations, norm.out.val.historicalAffiliations}
             \ {Undefined}
    ELSE IF norm.fn = "parseMembers" THEN {norm.out} \ {Undefined}
    ELSE {}

\* the source entries of a list that was produced
SourceOf(list) ==
    IF norm.fn = "parseMembers" THEN input.val.affiliation.val
    ELSE IF list = norm.out.val.historicalAffiliations /\ input.val.history # Undefined
    THEN input.val.history.val
    ELSE IF input.val.current # Undefined THEN input.val.current.val ELSE <<>>

\* the name a source entity carries, no value when it has none: the text of
\* an XML node, the localized name of a JSON entity
NameCarried(entity) ==
    LET text == CASE entity.kind = "string" -> entity
                  [] entity.kind = "array" ->
                        IF entity.val = <<>> THEN Undefined ELSE entity.val[1]
                  [] entity.kind = "object" /\ "text" \in DOMAIN entity.val ->
                        entity.val.text
                  [] entity.kind = "object" /\ "humanReadableValue" \in DOMAIN entity.val ->
                        TaggedOrFirstText(entity.val.humanReadableValue, "ja")
                  [] OTHER -> Undefined
    IN  IF text = JsString("") THEN Undefined ELSE text

\* the names of institution, department and job title of a source entry
ResolvedFrom(entry) ==
    [institution |-> NameCarried(entry.val.institution),
     department |-> NameCarried(entry.val.department),
     jobTitle |-> NameCarried(entry.val.jobTitle)]

\* the names of institution, department and job title of an Affiliation
NamesOf(affiliation) ==
    [k \in {"institution", "department", "jobTitle"} |->
        IF affiliation.val[k] = Undefined THEN Undefined ELSE affiliation.val[k].val.name]

AllAbsent(a) ==
    a.institution = Undefined /\ a.department = Undefined /\ a.jobTitle = Undefined

\* C24: no affiliation list of a Researcher or of a project member holds an
\* Affiliation whose institution, department and jobTitle are all absent: a
\* source entry resolving to none of the three is omitted, the length of the
\* list is the number of the other entries, and these keep the source order.
C24_NoEmptyAffiliation ==
    \A list \in ListsProduced :
        LET source == SourceOf(list)
            kept == {i \in DOMAIN source : ~AllAbsent(ResolvedFrom(source[i]))}
        IN  /\ \A k \in DOMAIN list.val : ~AllAbsent(list.val[k].val)
            /\ list.val # <<>> \/ norm.fn = "parseResearcher"
            /\ Len(list.val) = Cardinality(kept)
            /\ \A k \in DOMAIN list.val :
                 \E i \in kept :
                    /\ Cardinality({j \in kept : j < i}) = k - 1
                    /\ NamesOf(list.val[k]) = ResolvedFrom(source[i])

\* a researcher whose first current affiliation resolves to nothing and whose
\* second has a named institution got a list of that one affiliation
C24_Witness ==
    /\ norm.fn = "parseResearcher"
    /\ input.val.current # Undefined
    /\ Len(input.val.current.val) = 2
    /\ AllAbsent(ResolvedFrom(input.val.current.val[1]))
    /\ input.val.current.val[1].val.institution # Undefined
    /\ Len(norm.out.val.currentAffiliations.val) = 1
    /\ norm.out.val.currentAffiliations.val[1].val.institution # Undefined

(* --------------------- a project from a grantAward -------------------- *)
(* parseProject of ProjectsAPI, called once on a grantAward element as the  *)
(* XML parser hands it over: attributes under their names, the elements     *)
(* listed in isArray as arrays.                                             *)

\* the most summary elements of a grantAward
MaxSummaries == 2

\* what a collection of a summary holds: no element, one element from which
\* nothing can be extracted, or such an element followed by one with content
Fills == {"absent", "blank", "filled"}

\* the elements of a collection, from the element without content and the one
\* with content
Filled(fill, blank, good) ==
    CASE fill = "absent" -> Undefined
      [] fill = "blank" -> JsArray(<<blank>>)
      [] fill = "filled" -> JsArray(<<blank, good>>)

\* the i-th summary element of a grantAward; its texts name the summary they
\* are in, and its title has a run of two spaces
Summary(i, lang, titled, fill) ==
    LET n == ToString(i)
        named(kind) == Filled(fill, Element(Undefined, JsString("c")),
                              Element(JsString(kind \o " " \o n), JsString("c")))
    IN  JsObject([
            lang |-> lang,
            title |-> IF titled THEN JsString("the  title " \o n) ELSE Undefined,
            titleAbbreviated |-> IF titled THEN JsString("abbr " \o n) ELSE Undefined,
            category |-> named("category"),
            field |-> named("field"),
            institution |-> named("institution"),
            allocation |-> named("allocation"),
            member |-> Filled(fill,
                              JsObject([role |-> Undefined, affiliation |-> Undefined]),
                              JsObject([role |-> JsString("role " \o n),
                                        affiliation |-> Undefined])),
            keywordList |-> IF fill = "absent" THEN Undefined
                            ELSE JsObject([keyword |->
                                    Filled(fill, JsString(""), JsString("keyword " \o n))]),
            projectStatus |-> IF fill = "filled"
                              THEN JsObject([statusCode |-> JsString("status " \o n)])
                              ELSE Undefined,
            overallAwardAmount |-> Filled(fill, JsString(""),
                                          JsObject([totalCost |-> JsNumber(i),
                                                    planned |-> JsString("true")]))])

SummaryChoices ==
    {<<lang, titled, fill>> :
        lang \in {Undefined, JsString("ja"), JsString("en")},
        titled \in BOOLEAN, fill \in Fills}

\* the summary elements of a grantAward: none, or up to MaxSummaries
SummaryLists ==
    {Undefined} \cup
    UNION {{JsArray([i \in 1..k |-> Summary(i, c[i][1], c[i][2], c[i][3])]) :
                c \in [1..k -> SummaryChoices]} : k \in 1..MaxSummaries}

\* a grantAward element: its identifier elements and its summary elements
GrantAwards ==
    {JsObject([identifier |->
                   Filled(fill,
                          JsObject([type |-> JsString("doi"), normalizedValue |-> Undefined]),
                          JsObject([type |-> JsString("doi"),
                                    normalizedValue |-> JsString("10.1/x")])),
               summary |-> sums]) :
        fill \in Fills, sums \in SummaryLists}

\* nodes.flatMap(f) for an f returning no element or one
FlatMapOne(f(_), nodes) ==
    LET out == [i \in DOMAIN nodes |-> f(nodes[i])]
        kept == SelectSeq(out, LAMBDA r : r # <<>>)
    IN  [i \in DOMAIN kept |-> kept[i][1]]

\* text.trim() of a text whose only whitespace is the space
RECURSIVE TrimStart(_)
TrimStart(text) ==
    IF Len(text) > 0 /\ SubSeq(text, 1, 1) = " "
    THEN TrimStart(SubSeq(text, 2, Len(text))) ELSE text
RECURSIVE TrimEnd(_)
TrimEnd(text) ==
    IF Len(text) > 0 /\ SubSeq(text, Len(text), Len(text)) = " "
    THEN TrimEnd(SubSeq(text, 1, Len(text) - 1)) ELSE text

\* text.replace(/\s+/g, ' ')
RECURSIVE CollapseSpaces(_)
CollapseSpaces(text) ==
    IF Len(text) = 0 THEN ""
    ELSE IF SubSeq(text, 1, 1) = " " THEN " " \o CollapseSpaces(TrimStart(text))
    ELSE SubSeq(text, 1, 1) \o CollapseSpaces(SubSeq(text, 2, Len(text)))

\* cleanText
CleanText(text) ==
    IF text = Undefined THEN Undefined
    ELSE JsString(TrimEnd(TrimStart(CollapseSpaces(text.val))))

\* cleanText(summary !== undefined ? String(summary[key] ?? '') || undefined : undefined)
TitleText(summary, key) ==
    IF summary = Undefined THEN Undefined
    ELSE LET text == IF summary.val[key].kind \in {"undefined", "null"} THEN ""
                     ELSE JsText(summary.val[key])
         IN  CleanText(IF text = "" THEN Undefined ELSE JsString(text))

\* summaries.find((s) => s['@_xml:lang'] === tag)
RECURSIVE FindSummary(_, _)
FindSummary(summaries, tag) ==
    IF summaries = <<>> THEN Undefined
    ELSE IF Head(summaries).val.lang = JsString(tag) THEN Head(summaries)
    ELSE FindSummary(Tail(summaries), tag)

\* summaries.find((s) => s['@_xml:lang'] === 'ja') ?? summaries[0]
SelectSummaryFirst(summaries) ==
    IF summaries # <<>> THEN summaries[1] ELSE Undefined
SelectSummary(summaries) ==
    LET ja == FindSummary(summaries, "ja")
    IN  IF ja # Undefined THEN ja
        ELSE IF summaries # <<>> THEN summaries[1] ELSE Undefined

\* parseIdentifiers
ParseIdentifiers(grantAward) ==
    FlatMapOne(LAMBDA id :
                   LET value == IF id.val.normalizedValue.kind = "string"
                                THEN id.val.normalizedValue ELSE Undefined
                   IN  IF NoName(id.val.type) \/ NoName(value) THEN <<>>
                       ELSE <<JsObject([type |-> id.val.type, value |-> value])>>,
               EnsureArray(grantAward.val.identifier))

\* the element of parseCategories, parseFields, parseInstitutions and
\* parseAllocations: a name and a code, nothing without a name
NamedEntity(node) ==
    LET name == ExtractText(node)
    IN  IF NoName(name) THEN <<>>
        ELSE <<JsObject([name |-> name, code |-> CodeOf(node)])>>

\* parseCategories
ParseCategories(summary) == FlatMapOne(NamedEntity, EnsureArray(summary.val.category))
\* parseFields
ParseFields(summary) == FlatMapOne(NamedEntity, EnsureArray(summary.val.field))
\* parseInstitutions
ParseInstitutions(summary) == FlatMapOne(NamedEntity, EnsureArray(summary.val.institution))
\* parseAllocations
ParseAllocations(summary) == FlatMapOne(NamedEntity, EnsureArray(summary.val.allocation))

\* parseKeywords
ParseKeywords(summary) ==
    IF summary.val.keywordList = Undefined THEN <<>>
    ELSE FlatMapOne(LAMBDA kw :
                        LET extracted == ExtractText(kw)
                            text == IF extracted # Undefined THEN extracted
                                    ELSE IF kw.kind = "string" THEN kw ELSE Undefined
                        IN  IF NoName(text) THEN <<>> ELSE <<JsObject([text |-> text])>>,
                    EnsureArray(summary.val.keywordList.val.keyword))

\* parseMembers; the members carry no personalName
ParseMembers(summary) ==
    FlatMapOne(LAMBDA m :
                   IF m.kind # "object" \/ NoName(m.val.role) THEN <<>>
                   ELSE <<JsObject([role |-> m.val.role,
                                    affiliations |-> MemberAffiliationsOf(m)])>>,
               EnsureArray(summary.val.member))

\* parseProjectStatus; the status carries nothing but its code
ParseProjectStatus(summary) ==
    LET ps == summary.val.projectStatus
    IN  IF ps = Undefined THEN Undefined
        ELSE IF NoName(ps.val.statusCode) THEN Undefined
        ELSE JsObject([statusCode |-> ps.val.statusCode])

\* parseAwardAmounts: one element for each overallAwardAmount; the amounts
\* carry a totalCost and the attribute planned at most
ParseAwardAmounts(summary) ==
    LET nodes == EnsureArray(summary.val.overallAwardAmount)
    IN  [i \in DOMAIN nodes |->
            LET a == nodes[i]
            IN  JsObject([totalCost |-> IF a.kind = "object" /\ a.val.totalCost.kind = "number"
                                        THEN a.val.totalCost ELSE Undefined,
                          planned |-> IF a.kind = "object" /\ a.val.planned # Undefined
                                      THEN JsBoolean(a.val.planned = JsString("true"))
                                      ELSE Undefined])]

\* ...(list.length > 0 && { list }) / if (list.length > 0) project.list = list
WhenNotEmpty(list) == IF Len(list) > 0 THEN JsArray(list) ELSE Undefined

\* parseProject
ParseProject(grantAward) ==
    LET identifiers == ParseIdentifiers(grantAward)
        summaries == EnsureArray(grantAward.val.summary)
        jaSummary == SelectSummary(summaries)
        enSummary == FindSummary(summaries, "en")
        some == jaSummary # Undefined
    IN  JsObject([
            title |-> TitleText(jaSummary, "title"),
            titleEn |-> TitleText(enSummary, "title"),
            titleAbbreviated |-> TitleText(jaSummary, "titleAbbreviated"),
            identifiers |-> WhenNotEmpty(identifiers),
            categories |-> IF some THEN WhenNotEmpty(ParseCategories(jaSummary)) ELSE Undefined,
            fields |-> IF some THEN WhenNotEmpty(ParseFields(jaSummary)) ELSE Undefined,
            institutions |-> IF some THEN WhenNotEmpty(ParseInstitutions(jaSummary))
                             ELSE Undefined,
            allocations |-> IF some THEN WhenNotEmpty(ParseAllocations(jaSummary))
                            ELSE Undefined,
            members |-> IF some THEN WhenNotEmpty(ParseMembers(jaSummary)) ELSE Undefined,
            keywords |-> IF some THEN WhenNotEmpty(ParseKeywords(jaSummary)) ELSE Undefined,
            projectStatus |-> IF some THEN ParseProjectStatus(jaSummary) ELSE Undefined,
            awardAmounts |-> IF some THEN WhenNotEmpty(ParseAwardAmounts(jaSummary))
                             ELSE Undefined])

InitProject ==
    /\ ClientIdle
    /\ input \in GrantAwards
    /\ norm = NoNorm
    /\ parses = <<>>

ParseProjectCall ==
    /\ norm = NoNorm
    /\ norm' = Norm("parseProject", ParseProject(input))
    /\ UNCHANGED <<clientVars, input, parses>>

NextProject == ParseProjectCall

SpecProject == InitProject /\ [][NextProject]_vars

\* the summary elements of the grantAward the call was given
SummariesGiven == IF input.val.summary = Undefined THEN <<>> ELSE input.val.summary.val

\* the places of the summaries tagged with the language
TaggedSummaries(tag) ==
    {i \in DOMAIN SummariesGiven : SummariesGiven[i].val.lang = JsString(tag)}

\* the place of the summary to select: the first tagged 'ja', else the first
SelectedPlace ==
    IF TaggedSummaries("ja") # {}
    THEN CHOOSE i \in TaggedSummaries("ja") : \A j \in TaggedSummaries("ja") : i <= j
    ELSE 1

\* the text naming the summary at the place, when that summary has the content
TextOfPlace(kind, i, present) ==
    IF present THEN JsString(kind \o " " \o ToString(i)) ELSE Undefined

\* the names, texts, roles or total costs of a collection of the project
Contents(collection, key) ==
    IF collection = Undefined THEN {}
    ELSE {collection.val[k].val[key] : k \in DOMAIN collection.val} \ {Undefined}

\* C25: for an award element the summary tagged 'ja' is selected if there is
\* one, else the first summary; title, titleAbbreviated and every nested
\* sub-entity come from the selected summary only; an 'en' tagged summary
\* supplies titleEn and nothing else, and titleEn is absent when no summary is
\* tagged 'en'.
C25_SummarySelection ==
    (norm.fn = "parseProject" /\ SummariesGiven # <<>>) =>
        LET i == SelectedPlace
            sel == SummariesGiven[i].val
            p == norm.out.val
            filled == sel.category # Undefined /\ Len(sel.category.val) = 2
            only(kind) == IF filled THEN {JsString(kind \o " " \o ToString(i))} ELSE {}
        IN  /\ p.title = TextOfPlace("the title", i, sel.title # Undefined)
            /\ p.titleAbbreviated = TextOfPlace("abbr", i, sel.titleAbbreviated # Undefined)
            /\ Contents(p.categories, "name") = only("category")
            /\ Contents(p.fields, "name") = only("field")
            /\ Contents(p.institutions, "name") = only("institution")
            /\ Contents(p.allocations, "name") = only("allocation")
            /\ Contents(p.members, "role") = only("role")
            /\ Contents(p.keywords, "text") = only("keyword")
            /\ Contents(p.awardAmounts, "totalCost") = (IF filled THEN {JsNumber(i)} ELSE {})
            /\ p.projectStatus = (IF filled
                                  THEN JsObject([statusCode |-> JsString("status " \o ToString(i))])
                                  ELSE Undefined)
            /\ TaggedSummaries("en") = {} => p.titleEn = Undefined
            /\ TaggedSummaries("en") # {} =>
                 \E e \in TaggedSummaries("en") :
                    /\ \A j \in TaggedSummaries("en") : e <= j
                    /\ p.titleEn = TextOfPlace("the title", e,
                                               SummariesGiven[e].val.title # Undefined)

\* a grantAward whose first summary is tagged 'en' and whose second is tagged
\* 'ja', both with title and content: the project has the title and the
\* categories of the second and the titleEn of the first
C25_Witness ==
    /\ norm.fn = "parseProject"
    /\ Len(SummariesGiven) = 2
    /\ SummariesGiven[1].val.lang = JsString("en")
    /\ SummariesGiven[2].val.lang = JsString("ja")
    /\ norm.out.val.title = JsString("the title 2")
    /\ norm.out.val.titleEn = JsString("the title 1")
    /\ Contents(norm.out.val.categories, "name") = {JsString("category 2")}

\* the collection fields of a Project
CollectionFields ==
    {"categories", "fields", "institutions", "allocations", "members", "keywords",
     "awardAmounts", "identifiers"}

\* something was extracted into the element of a collection
Extracted(element) == \E key \in DOMAIN element.val : element.val[key] # Undefined

\* C26: in every Project each collection field (categories, fields,
\* institutions, allocations, members, keywords, awardAmounts, identifiers) is
\* present only if it holds at least one element into which something was
\* extracted: it is never an empty list nor a list of elements from which
\* nothing was extracted.
C26_CollectionsHoldContent ==
    norm.fn = "parseProject" =>
        \A field \in CollectionFields :
            LET collection == norm.out.val[field]
            IN  collection # Undefined =>
                    /\ collection.val # <<>>
                    /\ \E k \in DOMAIN collection.val : Extracted(collection.val[k])

(* ------------------- parsing the body of a response ------------------- *)
(* parseXmlResponse of ProjectsAPI and parseJsonResponse of ResearchersAPI, *)
(* called one after the other on bodies, in any order, on the same API      *)
(* objects; and the catch block of the two, on the errors it may catch.     *)

\* the most parses made
MaxParses == 3

\* an error thrown while parsing: its class and what it is about
ParseError(kind, about) == Err(kind, about)
\* new KakenApiResponseError(`Failed to ...: ${String(error)}`)
KakenApiResponseError(message, cause) ==
    [kind |-> "KakenApiResponseError", message |-> message, cause |-> cause]

\* the response envelope: rawData, totalResults and the records
Envelope(rawData, totalResults, records) ==
    [kind |-> "envelope", rawData |-> rawData, totalResults |-> totalResults,
     records |-> records]

\* what parser.parse or JSON.parse did: the value returned, or the error thrown
ParsedAs(value) == [threw |-> FALSE, value |-> value, error |-> NoError]
ParseThrew(error) == [threw |-> TRUE, value |-> Undefined, error |-> error]

\* the grantAward element of the XML bodies: one summary tagged 'ja'
SampleGrantAward ==
    JsObject([identifier |-> Undefined,
              summary |-> JsArray(<<Summary(1, JsString("ja"), TRUE, "filled")>>)])

\* the researcher of the JSON bodies: one current affiliation
SampleResearcher ==
    JsObject([current |-> JsArray(<<AffiliationEntry(
                  JsObject([k \in Range(INSTITUTION_ID_KEYS) |-> Undefined]
                           @@ [humanReadableValue |->
                                   JsArray(<<LangEntry(JsString("ja"), JsString("A"))>>),
                               category |-> Undefined]),
                  Undefined, Undefined)>>),
              history |-> Undefined])

\* the XML bodies
XmlBodies ==
    {"plain text no xml tags", "<!-- never closed", "<?xml version=\"1.0\"?>",
     "<a>text</a>", "<grantAwards></grantAwards>",
     "<grantAwards><totalResults>0</totalResults></grantAwards>",
     "<grantAwards><totalResults>1</totalResults><grantAward>...</grantAward></grantAwards>"}

\* new XMLParser(options).parse(content) of fast-xml-parser: the object with
\* the root element under its name (a declaration under '?xml'), or an error
XMLParserParse(content) ==
    CASE content = "plain text no xml tags" ->
            ParsedAs([rootKey |-> Undefined, root |-> Undefined])
      [] content = "<!-- never closed" ->
            ParseThrew(ParseError("Error", "Comment is not closed."))
      [] content = "<?xml version=\"1.0\"?>" ->
            ParsedAs([rootKey |-> Undefined, root |-> Undefined])
      [] content = "<a>text</a>" ->
            ParsedAs([rootKey |-> JsString("a"), root |-> JsString("text")])
      [] content = "<grantAwards></grantAwards>" ->
            ParsedAs([rootKey |-> JsString("grantAwards"), root |-> JsString("")])
      [] content = "<grantAwards><totalResults>0</totalResults></grantAwards>" ->
            ParsedAs([rootKey |-> JsString("grantAwards"),
                      root |-> JsObject([totalResults |-> JsNumber(0),
                                         grantAward |-> Undefined])])
      [] OTHER ->
            ParsedAs([rootKey |-> JsString("grantAwards"),
                      root |-> JsObject([totalResults |-> JsNumber(1),
                                         grantAward |-> JsArray(<<SampleGrantAward>>)])])

\* the JSON bodies
JsonBodies ==
    {"not valid json {{{", "null", "5", "{}", "{\"researchers\":5}",
     "{\"researchers\":[null]}", "{\"totalResults\":1,\"researchers\":[{...}]}"}

\* JSON.parse(content)
JsonParse(content) ==
    CASE content = "not valid json {{{" ->
            ParseThrew(ParseError("SyntaxError", "Unexpected token"))
      [] content = "null" -> ParsedAs(JsNull)
      [] content = "5" -> ParsedAs(JsNumber(5))
      [] content = "{}" ->
            ParsedAs(JsObject([totalResults |-> Undefined, researchers |-> Undefined]))
      [] content = "{\"researchers\":5}" ->
            ParsedAs(JsObject([totalResults |-> Undefined, researchers |-> JsNumber(5)]))
      [] content = "{\"researchers\":[null]}" ->
            ParsedAs(JsObject([totalResults |-> Undefined,
                               researchers |-> JsArray(<<JsNull>>)]))
      [] OTHER ->
            ParsedAs(JsObject([totalResults |-> JsNumber(1),
                               researchers |-> JsArray(<<SampleResearcher>>)]))

\* catch (error) { if (error instanceof KakenApiResponseError) throw error;
\*                 throw new KakenApiResponseError(`${prefix}: ${String(error)}`) }
RethrowUncaught(prefix, error) == error
Rethrow(prefix, error) ==
    IF error.kind = "KakenApiResponseError" THEN error
    ELSE KakenApiResponseError(prefix \o ": " \o error.kind, error)

\* parseXmlResponse
ParseXmlResponse(content) ==
    LET parsed == XMLParserParse(content)
        outcome ==
            IF parsed.threw THEN parsed.error
            ELSE IF parsed.value.rootKey = Undefined
            THEN ParseError("Error", "Empty parsed result")
            ELSE IF parsed.value.root.kind # "object"
            THEN ParseError("Error", "Unexpected root element type")
            ELSE LET root == parsed.value.root
                     grantAwards == EnsureArray(root.val.grantAward)
                 IN  Envelope(content, root.val.totalResults,
                              [i \in DOMAIN grantAwards |-> ParseProject(grantAwards[i])])
    IN  IF outcome.kind = "envelope" THEN outcome
        ELSE Rethrow("Failed to parse XML response", outcome)

\* const researchers: Researcher[] = [] : the list a parse starts with, given
\* the parses made before it
ResearchersOfLastParse(earlier) ==
    IF earlier # <<>> /\ earlier[Len(earlier)].result.kind = "envelope"
    THEN earlier[Len(earlier)].result.records ELSE <<>>
NewResearchers(earlier) == <<>>

\* for (const item of list) researchers.push(this.parseResearcher(item)):
\* the researchers, or the TypeError of reading a property of null
PushResearchers(researchers, list) ==
    IF list.kind = "undefined" THEN ParsedAs(researchers)
    ELSE IF list.kind # "array"
    THEN ParseThrew(ParseError("TypeError", "list is not iterable"))
    ELSE IF \E i \in DOMAIN list.val : list.val[i].kind \in {"null", "undefined"}
    THEN ParseThrew(ParseError("TypeError", "Cannot read properties of null"))
    ELSE ParsedAs(researchers \o [i \in DOMAIN list.val |-> ParseResearcher(list.val[i])])

\* parseJsonResponse
ParseJsonResponse(content, earlier) ==
    LET parsed == JsonParse(content)
    IN  IF parsed.threw
        THEN KakenApiResponseError("Failed to parse JSON response: " \o parsed.error.kind,
                                   parsed.error)
        ELSE LET data == parsed.value
                 outcome ==
                    IF data.kind = "null"
                    THEN ParseError("TypeError", "Cannot read properties of null")
                    ELSE LET list == IF data.kind = "object" THEN data.val.researchers
                                     ELSE Undefined
                             pushed == PushResearchers(NewResearchers(earlier), list)
                         IN  IF pushed.threw THEN pushed.error
                             ELSE Envelope(data,
                                           IF data.kind = "object"
                                              /\ data.val.totalResults.kind = "number"
                                           THEN data.val.totalResults ELSE Undefined,
                                           pushed.value)
             IN  IF outcome.kind = "envelope" THEN outcome
                 ELSE Rethrow("Failed to process JSON response", outcome)

\* a parse that was made: the function, the body and what it returned or raised
Parse(fn, content, result) == [fn |-> fn, content |-> content, result |-> result]

\* the errors the catch block is entered with
CaughtErrors ==
    {ParseError("Error", "Empty parsed result"),
     ParseError("TypeError", "Cannot read properties of null"),
     KakenApiResponseError("Failed to parse JSON response: SyntaxError",
                           ParseError("SyntaxError", "Unexpected token"))}

InitParse ==
    /\ ClientIdle
    /\ input \in CaughtErrors
    /\ norm = NoNorm
    /\ parses = <<>>

ParseXmlResponseCall(content) ==
    /\ Len(parses) < MaxParses
    /\ parses' = Append(parses, Parse("parseXmlResponse", content, ParseXmlResponse(content)))
    /\ UNCHANGED <<clientVars, input, norm>>

ParseJsonResponseCall(content) ==
    /\ Len(parses) < MaxParses
    /\ parses' = Append(parses, Parse("parseJsonResponse", content,
                                      ParseJsonResponse(content, parses)))
    /\ UNCHANGED <<clientVars, input, norm>>

CatchBlock ==
    /\ norm = NoNorm
    /\ norm' = Norm("catch", Rethrow("Failed to process JSON response", input))
    /\ UNCHANGED <<clientVars, input, parses>>

NextParse ==
    \/ \E content \in XmlBodies : ParseXmlResponseCall(content)
    \/ \E content \in JsonBodies : ParseJsonResponseCall(content)
    \/ CatchBlock

SpecParse == InitParse /\ [][NextParse]_vars

\* the bodies whose parsing or processing fails: text without a tag, an
\* unclosed comment, a declaration alone, a root that is a text, a root without
\* content; JSON that is not valid, null, a researchers that is no list, a
\* researcher that is null
FailingBodies ==
    {"plain text no xml tags", "<!-- never closed", "<?xml version=\"1.0\"?>",
     "<a>text</a>", "<grantAwards></grantAwards>",
     "not valid json {{{", "null", "{\"researchers\":5}", "{\"researchers\":[null]}"}

\* C27: any failure while parsing or processing a body (XML that is not well
\* formed, no root or a root that is no object, JSON that is not valid, an
\* exception while the records are built) ends the parse with one
\* KakenApiResponseError, whose cause is not a KakenApiResponseError; a
\* KakenApiResponseError reaching the catch block leaves it as it is.
C27_OneResponseError ==
    /\ \A i \in DOMAIN parses :
          IF parses[i].content \in FailingBodies
          THEN /\ parses[i].result.kind = "KakenApiResponseError"
               /\ parses[i].result.cause.kind # "KakenApiResponseError"
          ELSE parses[i].result.kind = "envelope"
    /\ norm.fn = "catch" =>
          /\ norm.out.kind = "KakenApiResponseError"
          /\ input.kind = "KakenApiResponseError" => norm.out = input
          /\ input.kind # "KakenApiResponseError" => norm.out.cause = input

\* a KakenApiResponseError went through the catch block, after a parse of an
\* XML body with a text as root and one of a JSON body with a null researcher
C27_Witness ==
    /\ norm.fn = "catch"
    /\ input.kind = "KakenApiResponseError"
    /\ \E i \in DOMAIN parses :
          parses[i].content = "<a>text</a>" /\ parses[i].result.kind = "KakenApiResponseError"
    /\ \E i \in DOMAIN parses :
          /\ parses[i].content = "{\"researchers\":[null]}"
          /\ parses[i].result.kind = "KakenApiResponseError"

MaxRepeats == 3

\* the params the caller repeats: a keyword search with the page size absent,
\* not allowed (sent as the default, hence the URL of the first) and allowed
RepeatParams ==
    {Params("projects", JsString("kw"), Undefined, Undefined, Undefined, rpp) :
        rpp \in {Undefined, JsNumber(30), JsNumber(50)}}

\* a client before its first search, the cache directory empty
InitRepeat ==
    /\ useCache \in BOOLEAN
    /\ maxRetries = 1
    /\ timeout = DEFAULT_TIMEOUT_MS
    /\ store = [p \in ParamPaths |-> Absent]
    /\ expected = [u \in ParamUrls |-> Absent]
    /\ storeAtStart = store
    /\ pc = "idle"
    /\ url = "urlA"
    /\ cached = Null
    /\ attempt = 0
    /\ lastError = UnexpectedError
    /\ response = NoResult
    /\ fetchResult = NoResult
    /\ searchResult = NoSearchResult
    /\ calls = 0
    /\ nTransport = 0
    /\ nFail = 0
    /\ waits = <<>>
    /\ nSets = 0
    /\ lastOutcome = NoOutcome
    /\ abandoned = 0
    /\ api = NoApiCall
    /\ pair = [i \in PairCalls |-> PairIdle]
    /\ file = NoFile
    /\ finished = <<>>
    /\ query = NoQuery
    /\ input = NoInput
    /\ norm = NoNorm
    /\ parses = <<>>

\* the steps of the fetch function when the store works: readFile, mkdir and
\* writeFile do not reject.  The transport may still fail in every way.
WorkingStoreSteps ==
    \/ CacheLookup(TRUE)
    \/ FirstAttempt
    \/ BackoffSleep
    \/ Wake
    \/ \E code \in ThrownCodes : TransportThrows(code)
    \/ TimeoutFires
    \/ \E status \in Statuses : \E body \in ResponseBodies(status) :
            TransportResponds(status, body)
    \/ CacheSetDone
    \/ BodyReadFails
    \/ LoopExit
    \/ \E readable \in BOOLEAN : SearchReturn(readable)
    \/ \E o \in LateOutcomes : LateSettle(o)
    \/ StaleTimerFires

NextRepeat ==
    \/ \E p \in RepeatParams : SearchUpTo(p, MaxRepeats)
    \/ WorkingStoreSteps
    \/ ApiClear(TRUE)

SpecRepeat == InitRepeat /\ [][NextRepeat]_vars

\* the search in hand is past its cache lookup and has written nothing yet:
\* expected[url] is still what it was when the search began
PastLookup == pc \notin {"idle", "lookup"} /\ nSets = 0

\* C29: with caching enabled and a working store, once a fetch of a URL has
\* completed successfully from the network (expected[url] is the body it
\* delivered, until clear() empties it), every later fetch of that URL is
\* served from the cache, with that body and with no transport invocation; a
\* repeated search with the identical params builds the identical URL and so
\* never reaches the transport.
C29_RepeatServedFromCache ==
    (useCache /\ PastLookup /\ expected[url] \in Bodies)
        => /\ nTransport = 0
           /\ fetchResult = Returned(DefaultResponseStatus, expected[url])

\* the third search repeats the params of an earlier one that was answered by
\* the network, and has returned what the cache held, the transport not invoked
C29_Witness ==
    /\ useCache
    /\ calls = 3
    /\ pc = "done"
    /\ query.perPage = JsNumber(50)
    /\ nTransport = 0
    /\ nSets = 0
    /\ expected[url] = "body1"
    /\ searchResult = SearchResult("envelope", 0, "body1", NoError)

(* ---------------------- termination of a fetch call -------------------- *)

\* the greatest maxRetries of the clients whose calls are followed to their end
MaxLiveRetries == 2

\* a client before its first search, as Init, with maxRetries up to MaxLiveRetries
InitLive ==
    /\ Init
    /\ maxRetries <= MaxLiveRetries
    /\ timeout = DEFAULT_TIMEOUT_MS

\* client.ts:112, 149-154  the race of one attempt is decided: fetchFn(url)
\* settles, or the timer of withTimeout fires
AttemptSettles ==
    \/ \E code \in ThrownCodes : TransportThrows(code)
    \/ TimeoutFires
    \/ \E status \in Statuses : \E body \in ResponseBodies(status) :
            TransportResponds(status, body)

\* the continuations of the fetch function that wait for no timer and no
\* transport: the cache lookup, the loop statement, the body read and the cache
\* write (promises of the file system and of the response in hand), the throw
FunctionSteps ==
    \/ \E readOk \in BOOLEAN : CacheLookup(readOk)
    \/ FirstAttempt
    \/ BackoffSleep
    \/ CacheSetDone
    \/ \E opened \in BOOLEAN : CacheSetFails(opened)
    \/ BodyReadFails
    \/ LoopExit

\* every transport call settles or its timeout timer fires, every backoff
\* timer fires (setTimeout, client.ts:146 and 151), and the event loop runs
\* each continuation of the function once the promise it awaits has settled
SpecLive ==
    /\ InitLive
    /\ [][Next]_vars
    /\ WF_vars(AttemptSettles)
    /\ WF_vars(Wake)
    /\ WF_vars(FunctionSteps)

\* a fetch call is in progress / has returned a response or raised
InFetch == pc \in {"lookup", "loop", "sleeping", "fetching", "caching"}
FetchEnded == pc = "fetched" /\ fetchResult.kind \in {"response", "raise"}

====
